---- MODULE Spec2Model ----
(***************************************************************************)
(* A model of the Flutter "find unused resources" analysis engine          *)
(* (dart_cli): the command-line entry point, analyzeProject, the           *)
(* declaration / identifier / import / string-literal collectors,          *)
(* findUnusedPackages and findUnusedAssets.                                 *)
(*                                                                         *)
(* Dart strings are TLA+ strings; Dart's 0-based indices are kept.  The    *)
(* parser (package:analyzer) and the YAML loader (package:yaml) are        *)
(* libraries: a source file is given as its parsed compilation unit (token *)
(* stream, directives, string-literal nodes), a manifest as its text lines *)
(* together with the node loadYaml returns for them.                       *)
(***************************************************************************)
EXTENDS Integers, Sequences, FiniteSets, TLC

\* ------------------------------------------------------------------------
\* Bounds of the model
\* ------------------------------------------------------------------------

\* at most this many .dart files under lib/
MaxFiles == 2

\* at most this many interpolated expressions in an enumerated string
MaxExprs == 2

\* at most this many parts in an enumerated adjacent-strings literal
MaxParts == 3

\* at most this many CLI processes started by the extension run at once
MaxRuns == 2

\* at most this many entries in an enumerated archive
MaxEntries == 7

\* ------------------------------------------------------------------------
\* dart:core String
\* ------------------------------------------------------------------------

\* the printable ASCII characters in code-unit order: 32 (space) to 95 (_), and
\* 97 (a) to 126 (~)
AsciiLow == " !\"#$%&'()*+,-./0123456789:;<=>?@ABCDEFGHIJKLMNOPQRSTUVWXYZ[\\]^_"

AsciiHigh == "abcdefghijklmnopqrstuvwxyz{|}~"

CharAt(s, i) == SubSeq(s, i + 1, i + 1)

CodeUnitTable ==
    [c \in {SubSeq(AsciiLow, i, i) : i \in 1..Len(AsciiLow)}
            \cup {SubSeq(AsciiHigh, i, i) : i \in 1..Len(AsciiHigh)} |->
        IF \E i \in 1..Len(AsciiLow) : SubSeq(AsciiLow, i, i) = c
        THEN 31 + (CHOOSE i \in 1..Len(AsciiLow) : SubSeq(AsciiLow, i, i) = c)
        ELSE 96 + (CHOOSE i \in 1..Len(AsciiHigh) : SubSeq(AsciiHigh, i, i) = c)]

\* the control characters 9 to 13 are the ones outside the printable range
CodeUnit(c) ==
    CASE c = "\t" -> 9
      [] c = "\n" -> 10
      [] c = "" -> 11
      [] c = "\f" -> 12
      [] c = "\r" -> 13
      [] OTHER -> CodeUnitTable[c]

Min(S) == CHOOSE x \in S : \A y \in S : x <= y

Max(S) == CHOOSE x \in S : \A y \in S : x >= y

\* String.substring(start, end)
Substring(s, start, end) == SubSeq(s, start + 1, end)

\* String.substring(start)
SubstringFrom(s, start) == SubSeq(s, start + 1, Len(s))

MatchesAt(s, pat, i) == i + Len(pat) <= Len(s) /\ Substring(s, i, i + Len(pat)) = pat

\* String.indexOf(pattern): the first index, -1 when there is none
IndexOf(s, pat) ==
    LET hits == {i \in 0..Len(s) : MatchesAt(s, pat, i)}
    IN  IF hits = {} THEN -1 ELSE Min(hits)

\* String.lastIndexOf(pattern)
LastIndexOf(s, pat) ==
    LET hits == {i \in 0..Len(s) : MatchesAt(s, pat, i)}
    IN  IF hits = {} THEN -1 ELSE Max(hits)

\* String.contains(other)
Contains(s, pat) == IndexOf(s, pat) >= 0

\* String.startsWith(pattern)
StartsWith(s, pat) == MatchesAt(s, pat, 0)

\* String.endsWith(other)
EndsWith(s, pat) == Len(s) >= Len(pat) /\ MatchesAt(s, pat, Len(s) - Len(pat))

RECURSIVE ReplaceAll(_, _, _)
\* String.replaceAll(from, to) for a one-character pattern
ReplaceAll(s, from, to) ==
    IF s = "" THEN ""
    ELSE (IF CharAt(s, 0) = from THEN to ELSE CharAt(s, 0))
            \o ReplaceAll(SubstringFrom(s, 1), from, to)

\* String.trim, trimLeft and trimRight strip the code units of
\* WhitespaceCodeUnits. A string of this module holds the code units 9 to 13
\* and 32 to 126 only, so the characters met here are whitespace when they are
\* one of 9 to 13 or 32
IsWhitespace(c) ==
    LET WhitespaceCodeUnits ==
            (9..13) \cup {32, 133, 160, 5760} \cup (8192..8202)
                    \cup {8232, 8233, 8239, 8287, 12288, 65279}
    IN  CodeUnit(c) \in WhitespaceCodeUnits

RECURSIVE TrimLeft(_)
\* String.trimLeft()
TrimLeft(s) ==
    IF s # "" /\ IsWhitespace(CharAt(s, 0)) THEN TrimLeft(SubstringFrom(s, 1)) ELSE s

RECURSIVE TrimRight(_)
\* String.trimRight()
TrimRight(s) ==
    IF s # "" /\ IsWhitespace(CharAt(s, Len(s) - 1))
    THEN TrimRight(Substring(s, 0, Len(s) - 1)) ELSE s

\* String.trim()
Trim(s) == TrimRight(TrimLeft(s))

RECURSIVE CompareTo(_, _)
\* String.compareTo(other): the order of the code units; -1, 0 or 1
CompareTo(a, b) ==
    IF a = "" THEN (IF b = "" THEN 0 ELSE -1)
    ELSE IF b = "" THEN 1
    ELSE IF CodeUnit(CharAt(a, 0)) < CodeUnit(CharAt(b, 0)) THEN -1
    ELSE IF CodeUnit(CharAt(a, 0)) > CodeUnit(CharAt(b, 0)) THEN 1
    ELSE CompareTo(SubstringFrom(a, 1), SubstringFrom(b, 1))

RECURSIVE InsertSorted(_, _)
InsertSorted(sorted, x) ==
    IF sorted = <<>> THEN <<x>>
    ELSE IF CompareTo(x, Head(sorted)) < 0 THEN <<x>> \o sorted
    ELSE <<Head(sorted)>> \o InsertSorted(Tail(sorted), x)

RECURSIVE SortStrings(_)
\* List<String>.sort()
SortStrings(list) ==
    IF list = <<>> THEN <<>>
    ELSE InsertSorted(SortStrings(Tail(list)), Head(list))

\* Map lookup with a default: m[k] ?? d
GetOr(m, k, d) == IF k \in DOMAIN m THEN m[k] ELSE d

\* m[k] = v
Put(m, k, v) == [x \in DOMAIN m \cup {k} |-> IF x = k THEN v ELSE m[x]]

EmptyMap == [x \in {} |-> 0]

Range(seq) == {seq[i] : i \in 1..Len(seq)}

RECURSIVE Orders(_)
\* the orders in which a directory listing can yield the set S
Orders(S) ==
    IF S = {} THEN {<< >>} ELSE UNION {{<<x>> \o o : o \in Orders(S \ {x})} : x \in S}

RECURSIVE ConcatStrings(_)
\* StringBuffer.write of each string in turn, then toString()
ConcatStrings(strs) ==
    IF strs = <<>> THEN "" ELSE Head(strs) \o ConcatStrings(Tail(strs))

\* ------------------------------------------------------------------------
\* package:path (posix style)
\* ------------------------------------------------------------------------

RECURSIVE StripTrailingSeparators(_)
StripTrailingSeparators(path) ==
    IF Len(path) > 1 /\ EndsWith(path, "/")
    THEN StripTrailingSeparators(Substring(path, 0, Len(path) - 1)) ELSE path

\* p.basename(path): the part after the last separator
Basename(path) ==
    LET q == StripTrailingSeparators(path)
    IN  SubstringFrom(q, LastIndexOf(q, "/") + 1)

\* p.basenameWithoutExtension(path): a dot that is the first character of the
\* basename starts no extension
BasenameWithoutExtension(path) ==
    LET file == Basename(path)
        lastDot == LastIndexOf(file, ".")
    IN  IF lastDot <= 0 THEN file ELSE Substring(file, 0, lastDot)

\* p.extension(path)
Extension(path) ==
    LET file == Basename(path)
        lastDot == LastIndexOf(file, ".")
    IN  IF lastDot <= 0 THEN "" ELSE SubstringFrom(file, lastDot)

\* p.join(a, b) for a relative b
Join(a, b) == IF EndsWith(a, "/") THEN a \o b ELSE a \o "/" \o b

\* p.relative(path, from: from) for a path below from
Relative(path, from) ==
    IF StartsWith(path, Join(from, "")) THEN SubstringFrom(path, Len(Join(from, ""))) ELSE path

\* ------------------------------------------------------------------------
\* Parsed compilation units
\* ------------------------------------------------------------------------

\* a token of the scanner's stream; decl marks the name token of a
\* ClassDeclaration ("class"), a MethodDeclaration ("method") or a
\* FunctionDeclaration ("function")
Tk(lexeme, line) == [lexeme |-> lexeme, decl |-> "none", line |-> line]

Dk(lexeme, decl, line) == [lexeme |-> lexeme, decl |-> decl, line |-> line]

\* string-literal nodes of the AST
Simple(value) == [k |-> "simple", value |-> value]

\* elements: InterpolationString ("istr") and InterpolationExpression ("iexpr",
\* with the string-literal nodes inside the expression)
IStr(value) == [k |-> "istr", value |-> value]

IExpr(inner) == [k |-> "iexpr", strings |-> inner]

Interp(elements) == [k |-> "interp", elements |-> elements]

Adjacent(strings) == [k |-> "adjacent", strings |-> strings]

Directive(kind, uri) == [kind |-> kind, uri |-> uri]

RootInput == "/proj"

\* lib/a.dart:
\*   class Foo {}
\*   class Bar {}
UnitA ==
    [tokens |-> << Tk("class", 1), Dk("Foo", "class", 1), Tk("{", 1), Tk("}", 1),
                   Tk("class", 2), Dk("Bar", "class", 2), Tk("{", 2), Tk("}", 2) >>,
     directives |-> << >>,
     strings |-> << >>]

\* lib/b.dart:
\*   import 'package:http/http.dart';
\*   void run() { Bar('logo'); }
\*   void main() { run(); }
UnitB ==
    [tokens |-> << Tk("import", 1), Tk("'package:http/http.dart'", 1), Tk(";", 1),
                   Tk("void", 2), Dk("run", "function", 2), Tk("(", 2), Tk(")", 2),
                   Tk("{", 2), Tk("Bar", 2), Tk("(", 2), Tk("'logo'", 2), Tk(")", 2),
                   Tk(";", 2), Tk("}", 2),
                   Tk("void", 3), Dk("main", "function", 3), Tk("(", 3), Tk(")", 3),
                   Tk("{", 3), Tk("run", 3), Tk("(", 3), Tk(")", 3), Tk(";", 3),
                   Tk("}", 3) >>,
     directives |-> << Directive("import", Simple("package:http/http.dart")) >>,
     strings |-> << Simple("logo") >>]

\* lib/c.dart:
\*   class W {
\*     void Foo() {}
\*     void dispose() { log('img/abc.png'); }
\*     void a$b() {}
\*     bool operator ==(Object o) => true;
\*     int get size => 0;
\*   }
UnitC ==
    [tokens |-> << Tk("class", 1), Dk("W", "class", 1), Tk("{", 1),
                   Tk("void", 2), Dk("Foo", "method", 2), Tk("(", 2), Tk(")", 2),
                   Tk("{", 2), Tk("}", 2),
                   Tk("void", 3), Dk("dispose", "method", 3), Tk("(", 3), Tk(")", 3),
                   Tk("{", 3), Tk("log", 3), Tk("(", 3), Tk("'img/abc.png'", 3),
                   Tk(")", 3), Tk(";", 3), Tk("}", 3),
                   Tk("void", 4), Dk("a$b", "method", 4), Tk("(", 4), Tk(")", 4),
                   Tk("{", 4), Tk("}", 4),
                   Tk("bool", 5), Tk("operator", 5), Dk("==", "method", 5), Tk("(", 5),
                   Tk("Object", 5), Tk("o", 5), Tk(")", 5), Tk("=>", 5), Tk("true", 5),
                   Tk(";", 5),
                   Tk("int", 6), Tk("get", 6), Dk("size", "method", 6), Tk("=>", 6),
                   Tk("0", 6), Tk(";", 6),
                   Tk("}", 7) >>,
     directives |-> << >>,
     strings |-> << Simple("img/abc.png") >>]

\* lib/d.dart:
\*   export 'package:intl/intl.dart';
\*   final p = '$basePath/logo.png';
\*   void go() { a$b(); }
UnitD ==
    [tokens |-> << Tk("export", 1), Tk("'package:intl/intl.dart'", 1), Tk(";", 1),
                   Tk("final", 2), Tk("p", 2), Tk("=", 2), Tk("'", 2), Tk("$", 2),
                   Tk("basePath", 2), Tk("/logo.png'", 2), Tk(";", 2),
                   Tk("void", 3), Dk("go", "function", 3), Tk("(", 3), Tk(")", 3),
                   Tk("{", 3), Tk("a$b", 3), Tk("(", 3), Tk(")", 3), Tk(";", 3),
                   Tk("}", 3) >>,
     directives |-> << Directive("export", Simple("package:intl/intl.dart")) >>,
     strings |-> << Interp(<< IStr(""), IExpr(<< >>), IStr("/logo.png") >>) >>]

\* lib/e.dart:
\*   import 'package:lints';
\*   part 'package:yaml/part.dart';
\*   const s = 'abc' 'ic';
\*   class Node { Node(); factory Node.make() => Node(); }
\*   class _$Leaf { _$Leaf(); }
UnitE ==
    [tokens |-> << Tk("import", 1), Tk("'package:lints'", 1), Tk(";", 1),
                   Tk("part", 2), Tk("'package:yaml/part.dart'", 2), Tk(";", 2),
                   Tk("const", 3), Tk("s", 3), Tk("=", 3), Tk("'abc'", 3),
                   Tk("'ic'", 3), Tk(";", 3),
                   Tk("class", 4), Dk("Node", "class", 4), Tk("{", 4),
                   Tk("Node", 4), Tk("(", 4), Tk(")", 4), Tk(";", 4),
                   Tk("factory", 4), Tk("Node", 4), Tk(".", 4), Tk("make", 4),
                   Tk("(", 4), Tk(")", 4), Tk("=>", 4), Tk("Node", 4), Tk("(", 4),
                   Tk(")", 4), Tk(";", 4), Tk("}", 4),
                   Tk("class", 5), Dk("_$Leaf", "class", 5), Tk("{", 5),
                   Tk("_$Leaf", 5), Tk("(", 5), Tk(")", 5), Tk(";", 5), Tk("}", 5) >>,
     directives |-> << Directive("import", Simple("package:lints")),
                       Directive("part", Simple("package:yaml/part.dart")) >>,
     strings |-> << Adjacent(<< Simple("abc"), Simple("ic") >>) >>]

\* ---- the string literals enumerated for the visitors ----

\* the texts a literal segment or a plain part can have
Fragments == << "", "assets/", "/logo.png", "abc" >>

\* the fragment a digit character stands for
FragmentOf(digit) == Fragments[CodeUnit(digit) - CodeUnit("0") + 1]

\* the string literal inside an interpolated expression, where there is one:
\*   ${f('in')}
InnerString == << Simple("in") >>

\* the elements of an interpolated string: a literal segment, then for each
\* interpolated expression the expression and the segment after it (the parser
\* puts a segment, which can be empty, on both sides of every expression)
InterpolationOf(digits, inner) ==
    Interp([i \in 1..(2 * Len(digits) - 1) |->
               IF i % 2 = 1 THEN IStr(FragmentOf(SubSeq(digits, (i + 1) \div 2, (i + 1) \div 2)))
               ELSE IExpr(inner)])

\* the parts an adjacent-strings literal can have: the interpolated string
\* '$x' and three plain literals
Parts ==
    << Interp(<< IStr(""), IExpr(<< >>), IStr("") >>),
       Simple("assets/lo"), Simple("go.png"), Simple("abc") >>

\* the part a digit character stands for
PartOf(digit) == Parts[CodeUnit(digit) - CodeUnit("0") + 1]

\* the literal a code stands for: i and n an interpolated string (n with a
\* string inside its expression), a an adjacent-strings literal
LiteralOf(code) ==
    LET kind == SubSeq(code, 1, 1)
        digits == SubSeq(code, 2, Len(code))
    IN  CASE kind = "i" -> InterpolationOf(digits, << >>)
          [] kind = "n" -> InterpolationOf(digits, InnerString)
          [] kind = "a" -> Adjacent([i \in 1..Len(digits) |-> PartOf(SubSeq(digits, i, i))])

RECURSIVE StringTokens(_)
RECURSIVE StringTokensOf(_)
\* the tokens of a string literal: one for a plain literal with its quotes;
\* for an interpolated string one per segment (the first with the opening
\* quote, the last with the closing one) and those of each expression
StringTokens(node) ==
    CASE node.k = "simple" -> << Tk("'" \o node.value \o "'", 1) >>
      [] node.k = "adjacent" -> StringTokensOf(node.strings)
      [] node.k = "interp" ->
            StringTokensOf([i \in 1..Len(node.elements) |->
                IF node.elements[i].k = "iexpr" THEN node.elements[i]
                ELSE IStr((IF i = 1 THEN "'" ELSE "") \o node.elements[i].value
                              \o (IF i = Len(node.elements) THEN "'" ELSE ""))])
      [] node.k = "istr" -> << Tk(node.value, 1) >>
      [] node.k = "iexpr" ->
            IF node.strings = << >> THEN << Tk("$", 1), Tk("x", 1) >>
            ELSE << Tk("${", 1), Tk("f", 1), Tk("(", 1) >> \o StringTokensOf(node.strings)
                     \o << Tk(")", 1), Tk("}", 1) >>

StringTokensOf(nodes) ==
    IF nodes = << >> THEN << >> ELSE StringTokens(Head(nodes)) \o StringTokensOf(Tail(nodes))

\* lib/s_<code>.dart:
\*   final s = <the literal of the code>;
LiteralUnit(code) ==
    [tokens |-> << Tk("final", 1), Tk("s", 1), Tk("=", 1) >>
                    \o StringTokens(LiteralOf(code)) \o << Tk(";", 1) >>,
     directives |-> << >>,
     strings |-> << LiteralOf(code) >>]

RECURSIVE DigitStrings(_, _)
\* the strings of n of these digit characters
DigitStrings(digits, n) ==
    IF n = 0 THEN {""}
    ELSE {SubSeq(digits, i, i) \o rest :
             i \in 1..Len(digits), rest \in DigitStrings(digits, n - 1)}

\* the codes of the enumerated literals
LiteralCodes ==
    UNION {{"i" \o d : d \in DigitStrings("0123", n + 1)} : n \in 1..MaxExprs}
        \cup {"n" \o d : d \in DigitStrings("0123", 2)}
        \cup UNION {{"a" \o d : d \in DigitStrings("0123", n)} : n \in 2..MaxParts}

LiteralPath(code) == "lib/s_" \o code \o ".dart"

\* the code in the path of an enumerated literal's file
CodeOfPath(path) == SubSeq(path, Len("lib/s_") + 1, Len(path) - Len(".dart"))

\* the .dart files that can be under lib/, by path relative to the root
DartPaths == {"lib/a.dart", "lib/b.dart", "lib/c.dart", "lib/d.dart", "lib/e.dart"}

\* parseString(content of the file at this absolute path).unit
UnitOf(filePath) ==
    LET relative == Relative(filePath, RootInput)
    IN  CASE relative = "lib/a.dart" -> UnitA
          [] relative = "lib/b.dart" -> UnitB
          [] relative = "lib/c.dart" -> UnitC
          [] relative = "lib/d.dart" -> UnitD
          [] relative = "lib/e.dart" -> UnitE
          [] OTHER -> LiteralUnit(CodeOfPath(relative))

\* ------------------------------------------------------------------------
\* utils/identifier_utils.dart
\* ------------------------------------------------------------------------

IsIdentifierStart(c) ==
    \/ CodeUnit(c) \in CodeUnit("A")..CodeUnit("Z")
    \/ CodeUnit(c) \in CodeUnit("a")..CodeUnit("z")
    \/ c = "_"

\* \w
IsWordChar(c) == IsIdentifierStart(c) \/ CodeUnit(c) \in CodeUnit("0")..CodeUnit("9")

\* RegExp(r'^[A-Za-z_]\w*$').hasMatch(lexeme)
identifierPattern(lexeme) ==
    /\ lexeme # ""
    /\ IsIdentifierStart(CharAt(lexeme, 0))
    /\ \A i \in 1..(Len(lexeme) - 1) : IsWordChar(CharAt(lexeme, i))

\* the lexemes of the tokens that match identifierPattern, in stream order
collectIdentifierLexemes(unit) ==
    LET keep(t) == identifierPattern(t.lexeme)
        kept == SelectSeq(unit.tokens, keep)
    IN  [i \in 1..Len(kept) |-> kept[i].lexeme]

\* ------------------------------------------------------------------------
\* visitors
\* ------------------------------------------------------------------------

Info(name, filePath, line) == [name |-> name, filePath |-> filePath, line |-> line]

\* ClassCollector.classes after unit.accept
ClassCollector(filePath, unit) ==
    LET isClass(t) == t.decl = "class"
        found == SelectSeq(unit.tokens, isClass)
    IN  [i \in 1..Len(found) |-> Info(found[i].lexeme, filePath, found[i].line)]

\* MethodCollector._excluded
Excluded ==
    {"build", "createState", "initState", "dispose", "deactivate", "reassemble",
     "didChangeDependencies", "didUpdateWidget", "debugFillProperties", "toString",
     "hashCode", "noSuchMethod", "main"}

\* a collector without the exclusion set
MethodCollectorUnfiltered(filePath, unit) ==
    LET isMethod(t) == t.decl \in {"method", "function"}
        found == SelectSeq(unit.tokens, isMethod)
    IN  [i \in 1..Len(found) |-> Info(found[i].lexeme, filePath, found[i].line)]

\* MethodCollector.methods after unit.accept
MethodCollector(filePath, unit) ==
    LET isMethod(t) == t.decl \in {"method", "function"} /\ t.lexeme \notin Excluded
        found == SelectSeq(unit.tokens, isMethod)
    IN  [i \in 1..Len(found) |-> Info(found[i].lexeme, filePath, found[i].line)]

RECURSIVE HasStringValue(_)
\* StringLiteral.stringValue != null: an interpolation has no string value
HasStringValue(node) ==
    CASE node.k = "simple" -> TRUE
      [] node.k = "interp" -> FALSE
      [] node.k = "adjacent" ->
            \A i \in 1..Len(node.strings) : HasStringValue(node.strings[i])

RECURSIVE StringValue(_)
\* StringLiteral.stringValue, where it is not null
StringValue(node) ==
    CASE node.k = "simple" -> node.value
      [] node.k = "adjacent" ->
            ConcatStrings([i \in 1..Len(node.strings) |-> StringValue(node.strings[i])])

\* ImportCollector.uris after unit.accept
ImportCollector(unit) ==
    LET counted(d) == d.kind \in {"import", "export"} /\ HasStringValue(d.uri)
        found == SelectSeq(unit.directives, counted)
    IN  [i \in 1..Len(found) |-> StringValue(found[i].uri)]

RECURSIVE InterpolationSegmentsJoined(_, _, _)
\* a loop that does not flush its buffer at an interpolated expression
InterpolationSegmentsJoined(elements, i, buffer) ==
    IF i > Len(elements) THEN (IF buffer # "" THEN <<buffer>> ELSE << >>)
    ELSE IF elements[i].k = "istr"
    THEN <<elements[i].value>>
            \o InterpolationSegmentsJoined(elements, i + 1, buffer \o elements[i].value)
    ELSE InterpolationSegmentsJoined(elements, i + 1, buffer)

RECURSIVE InterpolationSegments(_, _, _)
\* the loop of visitStringInterpolation from element i on, with the buffer so far
InterpolationSegments(elements, i, buffer) ==
    IF i > Len(elements) THEN (IF buffer # "" THEN <<buffer>> ELSE << >>)
    ELSE IF elements[i].k = "istr"
    THEN <<elements[i].value>>
            \o InterpolationSegments(elements, i + 1, buffer \o elements[i].value)
    ELSE (IF buffer # "" THEN <<buffer>> ELSE << >>)
            \o InterpolationSegments(elements, i + 1, "")

\* the loop of visitAdjacentStrings: each simple part, then the buffer
AdjacentSegments(strs) ==
    LET isSimple(n) == n.k = "simple"
        simple == SelectSeq(strs, isSimple)
        values == [i \in 1..Len(simple) |-> simple[i].value]
    IN  values \o <<ConcatStrings(values)>>

RECURSIVE VisitString(_)
RECURSIVE VisitStrings(_)
\* what visiting a string-literal node (and, by super, its children) adds to
\* StringLiteralCollector.literals
VisitString(node) ==
    CASE node.k = "simple" -> <<node.value>>
      [] node.k = "adjacent" -> AdjacentSegments(node.strings) \o VisitStrings(node.strings)
      [] node.k = "interp" ->
            InterpolationSegments(node.elements, 1, "") \o VisitStrings(node.elements)
      [] node.k = "istr" -> << >>
      [] node.k = "iexpr" -> VisitStrings(node.strings)

VisitStrings(nodes) ==
    IF nodes = << >> THEN << >> ELSE VisitString(Head(nodes)) \o VisitStrings(Tail(nodes))

\* StringLiteralCollector.literals after unit.accept: the directive URIs are
\* string literals of the unit too
StringLiteralCollector(unit) ==
    VisitStrings([i \in 1..Len(unit.directives) |-> unit.directives[i].uri])
        \o VisitStrings(unit.strings)

\* ------------------------------------------------------------------------
\* package:yaml nodes and the manifests
\* ------------------------------------------------------------------------

YNull == [t |-> "null"]

YStr(v) == [t |-> "str", v |-> v]

\* entries: a sequence of <<key, node>>
YMap(entries) == [t |-> "map", entries |-> entries]

YList(items) == [t |-> "list", items |-> items]

\* node is YamlMap
IsYamlMap(node) == node.t = "map"

\* node is YamlList
IsYamlList(node) == node.t = "list"

\* YamlMap.keys, in document order
YKeys(node) == [i \in 1..Len(node.entries) |-> node.entries[i][1]]

\* map[key]: null when the key is absent
YGet(node, key) ==
    IF \E i \in 1..Len(node.entries) : node.entries[i][1] = key
    THEN node.entries[CHOOSE i \in 1..Len(node.entries) : node.entries[i][1] = key][2]
    ELSE YNull

\* toString() of a scalar node
YToString(node) == IF node.t = "str" THEN node.v ELSE "null"

SdkFlutter == YMap(<< <<"sdk", YStr("flutter")>> >>)

FontFamilyR ==
    YMap(<< <<"family", YStr("R")>>,
            <<"fonts", YList(<< YMap(<< <<"asset", YStr("fonts/r.ttf")>> >>) >>)>> >>)

\* Scenario B with an SDK pin, a package declared in both sections, directory
\* asset entries and a font family
ManifestAText ==
    "dependencies:\n  flutter:\n    sdk: flutter\n  intl: any\n  http: ^1.0.0\n"
    \o "dev_dependencies:\n  intl: any\n  lints: any\n"
    \o "flutter:\n  assets:\n    - assets/\n    - fonts/\n"
    \o "  fonts:\n    - family: R\n      fonts:\n        - asset: fonts/r.ttf\n"

ManifestAYaml ==
    YMap(<< <<"dependencies", YMap(<< <<"flutter", SdkFlutter>>,
                                      <<"intl", YStr("any")>>,
                                      <<"http", YStr("^1.0.0")>> >>)>>,
            <<"dev_dependencies", YMap(<< <<"intl", YStr("any")>>,
                                          <<"lints", YStr("any")>> >>)>>,
            <<"flutter", YMap(<< <<"assets", YList(<< YStr("assets/"), YStr("fonts/") >>)>>,
                                 <<"fonts", YList(<< FontFamilyR >>)>> >>)>> >>)

\* single-file asset entries, one nested directory, a font family
ManifestBText ==
    "dependencies:\n  http: ^1.0.0\n  yaml:\n"
    \o "flutter:\n  assets:\n    - assets/.env\n    - assets/logo.png\n    - fonts/r.ttf\n"
    \o "    - assets/sub/\n    - assets/abc.svg\n"
    \o "  fonts:\n    - family: R\n      fonts:\n        - asset: fonts/r.ttf\n"

ManifestBYaml ==
    YMap(<< <<"dependencies", YMap(<< <<"http", YStr("^1.0.0")>>,
                                      <<"yaml", YNull>> >>)>>,
            <<"flutter", YMap(<< <<"assets", YList(<< YStr("assets/.env"),
                                                      YStr("assets/logo.png"),
                                                      YStr("fonts/r.ttf"),
                                                      YStr("assets/sub/"),
                                                      YStr("assets/abc.svg") >>)>>,
                                 <<"fonts", YList(<< FontFamilyR >>)>> >>)>> >>)

\* an empty dependencies section, only an SDK pin under dev_dependencies, a
\* font file listed as an asset with no font family declared
ManifestCText ==
    "dependencies:\ndev_dependencies:\n  flutter_test:\n    sdk: flutter\n"
    \o "flutter:\n  assets:\n    - fonts/r.ttf\n"

ManifestCYaml ==
    YMap(<< <<"dependencies", YNull>>,
            <<"dev_dependencies", YMap(<< <<"flutter_test", SdkFlutter>> >>)>>,
            <<"flutter", YMap(<< <<"assets", YList(<< YStr("fonts/r.ttf") >>)>> >>)>> >>)

\* an override section ahead of the dependencies, dependencies written in
\* flow style on one line, and a dependency whose value is a map with an sdk
\* key that has no value
ManifestDText ==
    "dependency_overrides:\n  intl: 0.18.0\ndependencies: {http: any}\n"
    \o "dev_dependencies:\n  intl: any\n  meta:\n    sdk:\n"

ManifestDYaml ==
    YMap(<< <<"dependency_overrides", YMap(<< <<"intl", YStr("0.18.0")>> >>)>>,
            <<"dependencies", YMap(<< <<"http", YStr("any")>> >>)>>,
            <<"dev_dependencies", YMap(<< <<"intl", YStr("any")>>,
                                          <<"meta", YMap(<< <<"sdk", YNull>> >>)>> >>)>> >>)

\* a document that is a list, not a map
ManifestListText == "- http\n- intl\n"

ManifestListYaml == YList(<< YStr("http"), YStr("intl") >>)

\* pubspec.yaml as the file system holds it: whether the file exists, whether
\* reading it succeeds, its text and what loadYaml returns for that text
Manifests ==
    {[exists |-> FALSE, readable |-> FALSE, text |-> "", yaml |-> YNull],
     [exists |-> TRUE, readable |-> FALSE, text |-> ManifestAText, yaml |-> ManifestAYaml],
     [exists |-> TRUE, readable |-> TRUE, text |-> ManifestListText, yaml |-> ManifestListYaml],
     [exists |-> TRUE, readable |-> TRUE, text |-> ManifestAText, yaml |-> ManifestAYaml],
     [exists |-> TRUE, readable |-> TRUE, text |-> ManifestBText, yaml |-> ManifestBYaml],
     [exists |-> TRUE, readable |-> TRUE, text |-> ManifestCText, yaml |-> ManifestCYaml],
     [exists |-> TRUE, readable |-> TRUE, text |-> ManifestDText, yaml |-> ManifestDYaml]}

\* the candidate files outside lib/, by path relative to the root
AssetFiles ==
    {"assets/.env", "assets/abc.svg", "assets/logo.png", "assets/sub/deep.png",
     "fonts/r.ttf"}

\* the disk holds every candidate file, or all but one
Disks == {AssetFiles} \cup {AssetFiles \ {f} : f \in AssetFiles}

\* ------------------------------------------------------------------------
\* analyzers/unused_package_analyzer.dart
\* ------------------------------------------------------------------------

RECURSIVE Split(_, _)
\* String.split(separator)
Split(s, sep) ==
    LET i == IndexOf(s, sep)
    IN  IF i = -1 THEN <<s>>
        ELSE <<Substring(s, 0, i)>> \o Split(SubstringFrom(s, i + Len(sep)), sep)

\* a load that does not fail when the file cannot be read
PubspecLoadsUnread(m) == m.exists /\ IsYamlMap(m.yaml)

\* File.existsSync() passed, readAsString() and `loadYaml(content) as YamlMap`
\* did not throw
PubspecLoads(m) == m.exists /\ m.readable /\ IsYamlMap(m.yaml)

RECURSIVE LineNumberScanLast(_, _, _)
\* a scan in which the last line with a key wins
LineNumberScanLast(pubspecLines, i, lineNumberByPackage) ==
    IF i >= Len(pubspecLines) THEN lineNumberByPackage
    ELSE LET trimmed == TrimLeft(pubspecLines[i + 1])
             colonIdx == IndexOf(trimmed, ":")
             key == Trim(Substring(trimmed, 0, colonIdx))
         IN  IF colonIdx > 0
             THEN LineNumberScanLast(pubspecLines, i + 1, Put(lineNumberByPackage, key, i + 1))
             ELSE LineNumberScanLast(pubspecLines, i + 1, lineNumberByPackage)

RECURSIVE LineNumberScan(_, _, _)
\* the loop over pubspecLines from index i (0-based) on
LineNumberScan(pubspecLines, i, lineNumberByPackage) ==
    IF i >= Len(pubspecLines) THEN lineNumberByPackage
    ELSE LET trimmed == TrimLeft(pubspecLines[i + 1])
             colonIdx == IndexOf(trimmed, ":")
             key == Trim(Substring(trimmed, 0, colonIdx))
         IN  IF colonIdx > 0 /\ key \notin DOMAIN lineNumberByPackage
             THEN LineNumberScan(pubspecLines, i + 1, Put(lineNumberByPackage, key, i + 1))
             ELSE LineNumberScan(pubspecLines, i + 1, lineNumberByPackage)

\* package name -> 1-based line number in pubspec.yaml
LineNumberByPackage(pubspecContent) == LineNumberScan(Split(pubspecContent, "\n"), 0, EmptyMap)

\* `value is YamlMap && value['sdk'] != null`
IsSdkPin(value) == IsYamlMap(value) /\ YGet(value, "sdk") # YNull

\* Set.add on an insertion-ordered set
SetAdd(seq, e) == IF e \in Range(seq) THEN seq ELSE Append(seq, e)

RECURSIVE SetAddAll(_, _)
SetAddAll(seq, es) == IF es = << >> THEN seq ELSE SetAddAll(SetAdd(seq, Head(es)), Tail(es))

\* the names one section contributes, in key order
SectionPackages(pubspec, section) ==
    LET node == YGet(pubspec, section)
    IN  IF ~IsYamlMap(node) THEN << >>
        ELSE LET declared(key) == ~IsSdkPin(YGet(node, key))
             IN  SelectSeq(YKeys(node), declared)

\* packageNames after the loop over dependencies and dev_dependencies
PackageNames(pubspec) ==
    SetAddAll(SectionPackages(pubspec, "dependencies"),
              SectionPackages(pubspec, "dev_dependencies"))

\* an extraction that does not cut at the first '/'
PackageOfUriWhole(uri) == SubstringFrom(uri, Len("package:"))

\* the package name of a 'package:' URI
PackageOfUri(uri) ==
    LET rest == SubstringFrom(uri, Len("package:"))
        slash == IndexOf(rest, "/")
    IN  IF slash = -1 THEN rest ELSE Substring(rest, 0, slash)

\* what one file's URIs add to importedPackages
ImportedPackagesOf(uris) ==
    {PackageOfUri(uris[i]) : i \in {j \in 1..Len(uris) : StartsWith(uris[j], "package:")}}

\* a list left in the order of declaration
SortByNameSkipped(list) == list

RECURSIVE InsertByName(_, _)
InsertByName(sorted, e) ==
    IF sorted = << >> THEN <<e>>
    ELSE IF CompareTo(e.name, Head(sorted).name) < 0 THEN <<e>> \o sorted
    ELSE <<Head(sorted)>> \o InsertByName(Tail(sorted), e)

RECURSIVE SortByName(_)
\* unusedPackages.sort((a, b) => a['name'].compareTo(b['name']))
SortByName(list) ==
    IF list = << >> THEN << >>
    ELSE InsertByName(SortByName(SubSeq(list, 1, Len(list) - 1)), list[Len(list)])

\* step 4 of findUnusedPackages: the packages never imported, sorted
UnusedPackagesOf(names, imported, lineNumberByPackage) ==
    LET unused(n) == n \notin imported
        kept == SelectSeq(names, unused)
    IN  SortByName([i \in 1..Len(kept) |->
                       [name |-> kept[i], line |-> GetOr(lineNumberByPackage, kept[i], 1)]])

\* ------------------------------------------------------------------------
\* analyzers/unused_asset_analyzer.dart
\* ------------------------------------------------------------------------

\* flutter.assets of a loaded pubspec, where it is a list
HasAssetList(pubspec) ==
    /\ IsYamlMap(YGet(pubspec, "flutter"))
    /\ IsYamlList(YGet(YGet(pubspec, "flutter"), "assets"))

\* what one font family adds to fontAssetPaths
FamilyFontPaths(fontFamily) ==
    IF ~IsYamlMap(fontFamily) \/ ~IsYamlList(YGet(fontFamily, "fonts")) THEN {}
    ELSE LET fontFiles == YGet(fontFamily, "fonts").items
         IN  {ReplaceAll(YToString(YGet(fontFiles[i], "asset")), "\\", "/") :
                 i \in {j \in 1..Len(fontFiles) :
                           /\ IsYamlMap(fontFiles[j])
                           /\ YGet(fontFiles[j], "asset") # YNull}}

\* fontAssetPaths: the asset paths declared under flutter.fonts
FontAssetPaths(flutterSection) ==
    LET fontsNode == YGet(flutterSection, "fonts")
    IN  IF ~IsYamlList(fontsNode) THEN {}
        ELSE UNION {FamilyFontPaths(fontsNode.items[i]) : i \in 1..Len(fontsNode.items)}

\* an exclusion that knows the font files only
IsAlwaysUsedFontsOnly(fontAssetPaths, relativePath) == relativePath \in fontAssetPaths

\* isAlwaysUsed: font files and .env files
IsAlwaysUsed(fontAssetPaths, relativePath) ==
    \/ relativePath \in fontAssetPaths
    \/ Basename(relativePath) = ".env"
    \/ StartsWith(Basename(relativePath), ".env.")

\* the entities Directory(absoluteEntry).list(recursive: false) yields: the
\* files in the directory and its subdirectories (nothing where the directory
\* does not exist)
DirectoryEntities(disk, rootPath, absoluteEntry) ==
    LET dir == StripTrailingSeparators(absoluteEntry)
        child(g) ==
            LET rest == SubstringFrom(Join(rootPath, g), Len(dir) + 1)
                slash == IndexOf(rest, "/")
            IN  IF slash = -1
                THEN [path |-> Join(rootPath, g), isFile |-> TRUE]
                ELSE [path |-> dir \o "/" \o Substring(rest, 0, slash), isFile |-> FALSE]
    IN  {child(g) : g \in {h \in disk : StartsWith(Join(rootPath, h), dir \o "/")}}

\* a listing that descends into the subdirectories
DirectoryFilesRecursive(disk, rootPath, absoluteEntry) ==
    {Join(rootPath, g) :
        g \in {h \in disk :
                  StartsWith(Join(rootPath, h), StripTrailingSeparators(absoluteEntry) \o "/")}}

\* the entities of the listing that pass `entity is File`
DirectoryFiles(disk, rootPath, absoluteEntry) ==
    {e.path : e \in {x \in DirectoryEntities(disk, rootPath, absoluteEntry) : x.isFile}}

\* what a directory entry adds, for one order of the listing
DirectoryAssets(listing, rootPath, fontAssetPaths) ==
    LET rel == [i \in 1..Len(listing) |->
                   ReplaceAll(Relative(listing[i], rootPath), "\\", "/")]
        kept(r) == ~IsAlwaysUsed(fontAssetPaths, r)
    IN  SelectSeq(rel, kept)

\* what a single-file entry adds
FileAssets(disk, assetEntry, fontAssetPaths) ==
    LET normalised == ReplaceAll(assetEntry, "\\", "/")
    IN  IF ~IsAlwaysUsed(fontAssetPaths, normalised) /\ assetEntry \in disk
        THEN <<normalised>> ELSE << >>

RECURSIVE DeclaredAssets(_, _, _, _)
\* step 3 of findUnusedAssets: the lists declaredAssets can end as, one for
\* each order in which the directory listings yield their files
DeclaredAssets(entries, disk, rootPath, fontAssetPaths) ==
    IF entries = << >> THEN {<< >>}
    ELSE LET assetEntry == YToString(Head(entries))
             absoluteEntry == Join(rootPath, assetEntry)
             first == IF EndsWith(assetEntry, "/")
                      THEN {DirectoryAssets(o, rootPath, fontAssetPaths) :
                               o \in Orders(DirectoryFiles(disk, rootPath, absoluteEntry))}
                      ELSE {FileAssets(disk, assetEntry, fontAssetPaths)}
             rest == DeclaredAssets(Tail(entries), disk, rootPath, fontAssetPaths)
         IN  {a \o b : a \in first, b \in rest}

\* the declaredAssets lists of a loaded pubspec with an asset list
DeclaredAssetsOf(pubspec, disk, rootPath) ==
    DeclaredAssets(YGet(YGet(pubspec, "flutter"), "assets").items, disk, rootPath,
                   FontAssetPaths(YGet(pubspec, "flutter")))

\* the stem counts only when it is longer than this
MinStemLength == 3

\* a match without the guard on the length of the stem
IsReferencedNoGuard(allStringLiterals, assetPath) ==
    \E lit \in allStringLiterals :
        \/ Contains(lit, assetPath)
        \/ Contains(lit, Basename(assetPath))
        \/ Contains(lit, BasenameWithoutExtension(assetPath))

\* isReferenced of step 5
IsReferenced(allStringLiterals, assetPath) ==
    LET basename == Basename(assetPath)
        stem == BasenameWithoutExtension(assetPath)
    IN  \E lit \in allStringLiterals :
            \/ Contains(lit, assetPath)
            \/ Contains(lit, basename)
            \/ (Len(stem) > MinStemLength /\ Contains(lit, stem))

\* step 5 of findUnusedAssets
UnusedAssetsOf(declaredAssets, allStringLiterals) ==
    LET unused(a) == ~IsReferenced(allStringLiterals, a)
        kept == SelectSeq(declaredAssets, unused)
    IN  [i \in 1..Len(kept) |-> [path |-> kept[i]]]

\* ------------------------------------------------------------------------
\* utils/file_utils.dart
\* ------------------------------------------------------------------------

\* files under lib/ that are not Dart sources
OtherLibFiles == {"lib/notes.txt"}

\* a collection that keeps the order of the listing
collectDartFilesUnsorted(listing) ==
    LET isDart(path) == Extension(path) = ".dart"
    IN  SelectSeq(listing, isDart)

\* collectDartFiles, for one order of the recursive directory listing (the
\* paths of the entities that are files)
collectDartFiles(listing) ==
    LET isDart(path) == Extension(path) = ".dart"
    IN  SortStrings(SelectSeq(listing, isDart))

\* ------------------------------------------------------------------------
\* The run: bin/main.dart and app_analyzer.dart
\* ------------------------------------------------------------------------

VARIABLES
    \* the environment, fixed during a run
    entry,          \* "cli": main(args) runs; "api": analyzeProject(rootPath) is called
    args,           \* the command-line arguments
    rootExists,     \* the root directory exists
    libExists,      \* the root has a lib/ directory
    lib,            \* the .dart files under lib/: relative path -> readAsString succeeds
    manifest,       \* pubspec.yaml, a member of Manifests
    disk,           \* the files outside lib/, relative to the root
    previous,       \* what the earlier calls of analyzeProject returned and listed
    \* the program
    pc,
    exitCode,
    stdout,         \* the documents written to stdout
    dartFiles,
    fileIdx,        \* position of the running `for (final filePath in dartFiles)`
    classInfos,
    methodInfos,
    declarationCountByName,
    methodDeclarationCountByName,
    identifierCountByName,
    unusedClasses,
    unusedMethods,
    packageNames,
    lineNumberByPackage,
    importedPackages,
    unusedPackages,
    declaredAssets,
    allStringLiterals,
    unusedAssets,
    result,         \* what analyzeProject returned
    \* the extension: the environment of DeadCodeProvider
    workspaceOpen,  \* vscode.workspace.workspaceFolders has a folder
    scriptExists,   \* dart_cli/bin/main.dart is in the extension package
    \* the extension: DeadCodeProvider
    providerResult, \* _result
    hasAnalyzed,    \* _hasAnalyzed
    viewState,      \* the context key reduceAppSize.state
    inFlight,       \* the CLI processes started whose exec callback has not run
    unresolved,     \* the promises handed to withProgress and not resolved yet
    fired,          \* onDidChangeTreeData fired since the view last asked
    children,       \* the tree the view holds: the items of the last root-level
                    \* getChildren() and what getChildren(item) returned for each
    lastCall,       \* the handler that ran last
    before,         \* _result, _hasAnalyzed and the state when it began
    afterReset,     \* reset() has run and refresh() has not been called since
    succeeded,      \* whether an analysis has succeeded: "never", "since reset"
                    \* (since the last reset(), or with no reset() so far) or
                    \* "before reset" (only before the last reset())
    \* the extension: the size analysis of a built archive
    archive,        \* the .apk or .ipa file: its type, its size, its zip entries
    report          \* what analyzeApkDirect / analyzeIpaDirect returned or threw

\* what no step of a run changes: the environment and what the caller keeps
envVars == <<entry, args, rootExists, libExists, lib, manifest, disk, previous>>

mainVars == <<exitCode, stdout>>

declVars == <<classInfos, methodInfos, declarationCountByName,
              methodDeclarationCountByName, identifierCountByName,
              unusedClasses, unusedMethods>>

packageVars == <<packageNames, lineNumberByPackage, importedPackages, unusedPackages>>

assetVars == <<declaredAssets, allStringLiterals, unusedAssets>>

providerVars == <<workspaceOpen, scriptExists, providerResult, hasAnalyzed, viewState,
                  inFlight, unresolved, fired, children, lastCall, before, afterReset,
                  succeeded>>

cliVars == <<envVars, mainVars, pc, dartFiles, fileIdx, declVars, packageVars, assetVars,
             result>>

sizeVars == <<archive, report>>

vars == <<cliVars, providerVars, sizeVars>>

\* sysexits: EX_USAGE
ExitUsage == 64

\* sysexits: EX_NOINPUT
ExitNoInput == 66

\* p.normalize(rootDir.absolute.path)
rootPath == RootInput

AbsentManifest == [exists |-> FALSE, readable |-> FALSE, text |-> "", yaml |-> YNull]

\* the contents lib/ can have: at most MaxFiles Dart files, each readable or not
LibChoices ==
    UNION {[D -> BOOLEAN] : D \in {S \in SUBSET DartPaths : Cardinality(S) <= MaxFiles}}

\* a lib/ that holds one file with one enumerated literal
LiteralLibs == {[f \in {LiteralPath(code)} |-> TRUE] : code \in LiteralCodes}

\* the project the enumerated literals are analysed in: manifest B, every
\* candidate file on the disk
LiteralProject(m, d) == m.readable /\ m.yaml = ManifestBYaml /\ d = AssetFiles

\* DeadCodeProvider: the initial value of _result
EmptyResult ==
    [unused_classes |-> << >>, unused_methods |-> << >>,
     unused_packages |-> << >>, unused_assets |-> << >>]

\* DeadCodeProvider as its constructor leaves it; no handler has run, the view
\* has not asked for its items
ProviderConstructed ==
    /\ providerResult = EmptyResult
    /\ hasAnalyzed = FALSE
    /\ viewState = "idle"
    /\ inFlight = 0
    /\ unresolved = 0
    /\ fired = FALSE
    /\ children = << >>
    /\ lastCall = "constructor"
    /\ before = [result |-> EmptyResult, hasAnalyzed |-> FALSE, state |-> "unset"]
    /\ afterReset = FALSE
    /\ succeeded = "never"

\* no archive has been picked for the size analysis
NoArchive ==
    /\ archive = [fileType |-> "none", fileSize |-> 0, entries |-> << >>]
    /\ report = [state |-> "none"]

Init ==
    /\ workspaceOpen = FALSE
    /\ scriptExists = FALSE
    /\ ProviderConstructed
    /\ NoArchive
    /\ entry \in {"cli", "api", "collect"}
    /\ args \in IF entry = "cli" THEN {<< >>, <<RootInput>>} ELSE {<<RootInput>>}
    /\ rootExists \in IF args = << >> THEN {FALSE} ELSE BOOLEAN
    /\ libExists \in IF rootExists THEN BOOLEAN ELSE {FALSE}
    /\ lib \in IF libExists THEN LibChoices \cup LiteralLibs ELSE {EmptyMap}
    /\ manifest \in IF rootExists /\ entry # "collect" THEN Manifests ELSE {AbsentManifest}
    /\ disk \in IF rootExists /\ entry # "collect" THEN Disks ELSE {{}}
    /\ lib \in LiteralLibs => entry = "api" /\ LiteralProject(manifest, disk)
    \* files are missing from the disk only where the manifest has an asset
    \* list, the one case in which the disk is looked at
    /\ disk \notin {AssetFiles, {}} =>
           /\ manifest.readable
           /\ IsYamlMap(manifest.yaml)
           /\ HasAssetList(manifest.yaml)
           /\ manifest.yaml # ManifestDYaml
    /\ previous = << >>
    /\ pc = CASE entry = "cli" -> "main"
               [] entry = "api" -> "analyze"
               [] entry = "collect" -> "collect"
    /\ exitCode = 0
    /\ stdout = << >>
    /\ dartFiles = << >>
    /\ fileIdx = 0
    /\ classInfos = << >>
    /\ methodInfos = << >>
    /\ declarationCountByName = EmptyMap
    /\ methodDeclarationCountByName = EmptyMap
    /\ identifierCountByName = EmptyMap
    /\ unusedClasses = << >>
    /\ unusedMethods = << >>
    /\ packageNames = << >>
    /\ lineNumberByPackage = EmptyMap
    /\ importedPackages = {}
    /\ unusedPackages = << >>
    /\ declaredAssets = << >>
    /\ allStringLiterals = {}
    /\ unusedAssets = << >>
    /\ result = EmptyMap

\* ---- main ----

\* main: no argument
MainUsage ==
    /\ pc = "main"
    /\ args = << >>
    /\ exitCode' = ExitUsage
    /\ pc' = "exit"
    /\ UNCHANGED <<sizeVars, providerVars, envVars, stdout, dartFiles, fileIdx, declVars, packageVars, assetVars,
                   result>>

\* main: the root directory does not exist
MainNotFound ==
    /\ pc = "main"
    /\ args # << >>
    /\ ~rootExists
    /\ exitCode' = ExitNoInput
    /\ pc' = "exit"
    /\ UNCHANGED <<sizeVars, providerVars, envVars, stdout, dartFiles, fileIdx, declVars, packageVars, assetVars,
                   result>>

\* the document main writes when lib/ is missing
NoLibDocument == [key \in {"unused_classes", "unused_methods", "unused_assets"} |-> << >>]

\* a main that treats a missing lib/ directory as a missing input
MainNoLibFails ==
    /\ pc = "main"
    /\ args # << >>
    /\ rootExists
    /\ ~libExists
    /\ exitCode' = ExitNoInput
    /\ stdout' = Append(stdout, NoLibDocument)
    /\ pc' = "exit"
    /\ UNCHANGED <<sizeVars, providerVars, envVars, dartFiles, fileIdx, declVars, packageVars,
                   assetVars, result>>

\* main: the root has no lib/ directory
MainNoLib ==
    /\ pc = "main"
    /\ args # << >>
    /\ rootExists
    /\ ~libExists
    /\ stdout' = Append(stdout, NoLibDocument)
    /\ pc' = "exit"
    /\ UNCHANGED <<sizeVars, providerVars, envVars, exitCode, dartFiles, fileIdx, declVars, packageVars,
                   assetVars, result>>

\* main: calls analyzeProject(rootPath)
MainAnalyze ==
    /\ pc = "main"
    /\ args # << >>
    /\ rootExists
    /\ libExists
    /\ pc' = "analyze"
    /\ UNCHANGED <<sizeVars, providerVars, envVars, mainVars, dartFiles, fileIdx, declVars, packageVars,
                   assetVars, result>>

\* main: stdout.writeln(jsonEncode(result))
MainEmit ==
    /\ pc = "return"
    /\ entry = "cli"
    /\ stdout' = Append(stdout, result)
    /\ pc' = "exit"
    /\ UNCHANGED <<sizeVars, providerVars, envVars, exitCode, dartFiles, fileIdx, declVars, packageVars,
                   assetVars, result>>

\* ---- analyzeProject ----

EmptyReport ==
    [key \in {"unused_classes", "unused_methods", "unused_packages", "unused_assets"} |->
        << >>]

Report(classes, methods, packages, assets) ==
    [key \in {"unused_classes", "unused_methods", "unused_packages", "unused_assets"} |->
        CASE key = "unused_classes" -> classes
          [] key = "unused_methods" -> methods
          [] key = "unused_packages" -> packages
          [] key = "unused_assets" -> assets]

\* analyzeProject: lib/ does not exist
AnalyzeNoLib ==
    /\ pc = "analyze"
    /\ ~libExists
    /\ result' = EmptyReport
    /\ pc' = "return"
    /\ UNCHANGED <<sizeVars, providerVars, envVars, mainVars, dartFiles, fileIdx, declVars, packageVars,
                   assetVars>>

\* analyzeProject: collectDartFiles(libDir.path)
AnalyzeCollect ==
    /\ pc = "analyze"
    /\ libExists
    /\ \E listing \in Orders({Join(rootPath, f) : f \in DOMAIN lib \cup OtherLibFiles}) :
          dartFiles' = collectDartFiles(listing)
    /\ fileIdx' = 1
    /\ pc' = "scan"
    /\ UNCHANGED <<sizeVars, providerVars, envVars, mainVars, declVars, packageVars, assetVars, result>>

\* collectDartFiles(join(rootPath, 'lib')) called on its own, the directory is
\* there
CollectListed ==
    /\ pc = "collect"
    /\ libExists
    /\ \E listing \in Orders({Join(rootPath, f) : f \in DOMAIN lib \cup OtherLibFiles}) :
          dartFiles' = collectDartFiles(listing)
    /\ pc' = "collected"
    /\ UNCHANGED <<sizeVars, providerVars, envVars, mainVars, fileIdx, declVars, packageVars, assetVars, result>>

\* collectDartFiles called on its own, the directory is missing: the stream of
\* Directory.list ends with a FileSystemException, which `await for` rethrows
CollectMissing ==
    /\ pc = "collect"
    /\ ~libExists
    /\ pc' = "threw"
    /\ UNCHANGED <<sizeVars, providerVars, envVars, mainVars, dartFiles, fileIdx, declVars, packageVars, assetVars,
                   result>>

\* a read that never fails
ReadableAlways(filePath) == TRUE

\* File(filePath).readAsString() succeeds
Readable(filePath) == lib[Relative(filePath, rootPath)]

RECURSIVE CountAllDeduplicated(_, _)
\* a merge that records that a name occurs, not how often
CountAllDeduplicated(counts, names) ==
    IF names = << >> THEN counts
    ELSE CountAllDeduplicated(Put(counts, Head(names), 1), Tail(names))

RECURSIVE CountAll(_, _)
\* counts[name] = (counts[name] ?? 0) + 1 for each name in turn
CountAll(counts, names) ==
    IF names = << >> THEN counts
    ELSE CountAll(Put(counts, Head(names), GetOr(counts, Head(names), 0) + 1), Tail(names))

Names(infos) == [i \in 1..Len(infos) |-> infos[i].name]

\* the first loop: readAsString throws, `continue`
ScanSkip ==
    /\ pc = "scan"
    /\ fileIdx <= Len(dartFiles)
    /\ ~Readable(dartFiles[fileIdx])
    /\ fileIdx' = fileIdx + 1
    /\ UNCHANGED <<sizeVars, providerVars, envVars, mainVars, pc, dartFiles, declVars, packageVars, assetVars,
                   result>>

\* the first loop: classes, methods and identifiers of one file
ScanFile ==
    /\ pc = "scan"
    /\ fileIdx <= Len(dartFiles)
    /\ Readable(dartFiles[fileIdx])
    /\ LET filePath == dartFiles[fileIdx]
           unit == UnitOf(filePath)
           classes == ClassCollector(filePath, unit)
           methods == MethodCollector(filePath, unit)
       IN  /\ classInfos' = classInfos \o classes
           /\ declarationCountByName' = CountAll(declarationCountByName, Names(classes))
           /\ methodInfos' = methodInfos \o methods
           /\ methodDeclarationCountByName' =
                  CountAll(methodDeclarationCountByName, Names(methods))
           /\ identifierCountByName' =
                  CountAll(identifierCountByName, collectIdentifierLexemes(unit))
    /\ fileIdx' = fileIdx + 1
    /\ UNCHANGED <<sizeVars, providerVars, envVars, mainVars, pc, dartFiles, unusedClasses, unusedMethods,
                   packageVars, assetVars, result>>

\* the caller keeps the report and calls analyzeProject(rootPath) once more on
\* the unchanged project
CallAgain ==
    /\ pc = "return"
    /\ entry = "api"
    /\ previous = << >>
    /\ previous' = << [result |-> result, declaredAssets |-> declaredAssets] >>
    /\ pc' = "analyze"
    /\ dartFiles' = << >>
    /\ fileIdx' = 0
    /\ classInfos' = << >>
    /\ methodInfos' = << >>
    /\ declarationCountByName' = EmptyMap
    /\ methodDeclarationCountByName' = EmptyMap
    /\ identifierCountByName' = EmptyMap
    /\ unusedClasses' = << >>
    /\ unusedMethods' = << >>
    /\ packageNames' = << >>
    /\ lineNumberByPackage' = EmptyMap
    /\ importedPackages' = {}
    /\ unusedPackages' = << >>
    /\ declaredAssets' = << >>
    /\ allStringLiterals' = {}
    /\ unusedAssets' = << >>
    /\ result' = EmptyMap
    /\ UNCHANGED <<sizeVars, providerVars, entry, args, rootExists, libExists, lib, manifest, disk,
                   mainVars>>

\* a comparison that leaves out equality
IsUnusedStrict(total, decls) == total < decls

\* `total <= decls`
IsUnused(total, decls) == total <= decls

\* the entries reported for the declarations whose name is counted no more
\* often than it is declared
UnusedDeclarations(infos, declCount, identCount) ==
    LET unused(info) == IsUnused(GetOr(identCount, info.name, 0),
                                 GetOr(declCount, info.name, 0))
        kept == SelectSeq(infos, unused)
    IN  [i \in 1..Len(kept) |->
            [name |-> kept[i].name,
             file |-> ReplaceAll(Relative(kept[i].filePath, rootPath), "\\", "/"),
             line |-> kept[i].line]]

\* after the first loop: unusedClasses and unusedMethods
ResolveDeclarations ==
    /\ pc = "scan"
    /\ fileIdx > Len(dartFiles)
    /\ unusedClasses' =
           UnusedDeclarations(classInfos, declarationCountByName, identifierCountByName)
    /\ unusedMethods' =
           UnusedDeclarations(methodInfos, methodDeclarationCountByName,
                              identifierCountByName)
    /\ pc' = "packages"
    /\ UNCHANGED <<sizeVars, providerVars, envVars, mainVars, dartFiles, fileIdx, classInfos, methodInfos,
                   declarationCountByName, methodDeclarationCountByName,
                   identifierCountByName, packageVars, assetVars, result>>

\* ---- findUnusedPackages ----

\* findUnusedPackages returns [] before its loop over the files
PackagesEarlyReturn(m) ==
    IF PubspecLoads(m) THEN PackageNames(m.yaml) = << >> ELSE TRUE

PackagesNone ==
    /\ pc = "packages"
    /\ PackagesEarlyReturn(manifest)
    /\ unusedPackages' = << >>
    /\ pc' = "assets"
    /\ UNCHANGED <<sizeVars, providerVars, envVars, mainVars, dartFiles, fileIdx, declVars, packageNames,
                   lineNumberByPackage, importedPackages, assetVars, result>>

\* steps 1 and 2 of findUnusedPackages
PackagesBegin ==
    /\ pc = "packages"
    /\ ~PackagesEarlyReturn(manifest)
    /\ lineNumberByPackage' = LineNumberByPackage(manifest.text)
    /\ packageNames' = PackageNames(manifest.yaml)
    /\ importedPackages' = {}
    /\ fileIdx' = 1
    /\ pc' = "packageScan"
    /\ UNCHANGED <<sizeVars, providerVars, envVars, mainVars, dartFiles, declVars, unusedPackages, assetVars,
                   result>>

PackageScanSkip ==
    /\ pc = "packageScan"
    /\ fileIdx <= Len(dartFiles)
    /\ ~Readable(dartFiles[fileIdx])
    /\ fileIdx' = fileIdx + 1
    /\ UNCHANGED <<sizeVars, providerVars, envVars, mainVars, pc, dartFiles, declVars, packageVars, assetVars,
                   result>>

\* step 3 of findUnusedPackages, one file
PackageScanFile ==
    /\ pc = "packageScan"
    /\ fileIdx <= Len(dartFiles)
    /\ Readable(dartFiles[fileIdx])
    /\ importedPackages' =
           importedPackages \cup ImportedPackagesOf(ImportCollector(UnitOf(dartFiles[fileIdx])))
    /\ fileIdx' = fileIdx + 1
    /\ UNCHANGED <<sizeVars, providerVars, envVars, mainVars, pc, dartFiles, declVars, packageNames,
                   lineNumberByPackage, unusedPackages, assetVars, result>>

\* step 4 of findUnusedPackages and the sort
PackagesEnd ==
    /\ pc = "packageScan"
    /\ fileIdx > Len(dartFiles)
    /\ unusedPackages' = UnusedPackagesOf(packageNames, importedPackages, lineNumberByPackage)
    /\ pc' = "assets"
    /\ UNCHANGED <<sizeVars, providerVars, envVars, mainVars, dartFiles, fileIdx, declVars, packageNames,
                   lineNumberByPackage, importedPackages, assetVars, result>>

\* ---- findUnusedAssets ----

\* findUnusedAssets returns [] before its loop over the files
AssetsEarlyReturn(m) ==
    IF PubspecLoads(m)
    THEN IF HasAssetList(m.yaml)
         THEN DeclaredAssetsOf(m.yaml, disk, rootPath) = {<< >>}
         ELSE TRUE
    ELSE TRUE

\* findUnusedAssets returned [], and analyzeProject returns
AssetsNone ==
    /\ pc = "assets"
    /\ AssetsEarlyReturn(manifest)
    /\ unusedAssets' = << >>
    /\ result' = Report(unusedClasses, unusedMethods, unusedPackages, << >>)
    /\ pc' = "return"
    /\ UNCHANGED <<sizeVars, providerVars, envVars, mainVars, dartFiles, fileIdx, declVars, packageVars,
                   declaredAssets, allStringLiterals>>

\* steps 1 to 3 of findUnusedAssets
AssetsBegin ==
    /\ pc = "assets"
    /\ ~AssetsEarlyReturn(manifest)
    /\ declaredAssets' \in DeclaredAssetsOf(manifest.yaml, disk, rootPath)
    /\ allStringLiterals' = {}
    /\ fileIdx' = 1
    /\ pc' = "assetScan"
    /\ UNCHANGED <<sizeVars, providerVars, envVars, mainVars, dartFiles, declVars, packageVars, unusedAssets,
                   result>>

AssetScanSkip ==
    /\ pc = "assetScan"
    /\ fileIdx <= Len(dartFiles)
    /\ ~Readable(dartFiles[fileIdx])
    /\ fileIdx' = fileIdx + 1
    /\ UNCHANGED <<sizeVars, providerVars, envVars, mainVars, pc, dartFiles, declVars, packageVars, assetVars,
                   result>>

\* step 4 of findUnusedAssets, one file
AssetScanFile ==
    /\ pc = "assetScan"
    /\ fileIdx <= Len(dartFiles)
    /\ Readable(dartFiles[fileIdx])
    /\ allStringLiterals' =
           allStringLiterals \cup Range(StringLiteralCollector(UnitOf(dartFiles[fileIdx])))
    /\ fileIdx' = fileIdx + 1
    /\ UNCHANGED <<sizeVars, providerVars, envVars, mainVars, pc, dartFiles, declVars, packageVars,
                   declaredAssets, unusedAssets, result>>

\* step 5 of findUnusedAssets, and analyzeProject returns
AssetsEnd ==
    /\ pc = "assetScan"
    /\ fileIdx > Len(dartFiles)
    /\ unusedAssets' = UnusedAssetsOf(declaredAssets, allStringLiterals)
    /\ result' = Report(unusedClasses, unusedMethods, unusedPackages,
                        UnusedAssetsOf(declaredAssets, allStringLiterals))
    /\ pc' = "return"
    /\ UNCHANGED <<sizeVars, providerVars, envVars, mainVars, dartFiles, fileIdx, declVars, packageVars,
                   declaredAssets, allStringLiterals>>

Next ==
    \/ MainUsage
    \/ MainNotFound
    \/ MainNoLib
    \/ MainAnalyze
    \/ MainEmit
    \/ AnalyzeNoLib
    \/ AnalyzeCollect
    \/ ScanSkip
    \/ ScanFile
    \/ ResolveDeclarations
    \/ PackagesNone
    \/ PackagesBegin
    \/ PackageScanSkip
    \/ PackageScanFile
    \/ PackagesEnd
    \/ AssetsNone
    \/ AssetsBegin
    \/ AssetScanSkip
    \/ AssetScanFile
    \/ AssetsEnd
    \/ CallAgain
    \/ CollectListed
    \/ CollectMissing

Spec == Init /\ [][Next]_vars

\* ------------------------------------------------------------------------
\* The VS Code extension: DeadCodeProvider (src/DeadCodeProvider.ts)
\* ------------------------------------------------------------------------

\* the JSON documents met: the text and what JSON.parse makes of it; an array
\* value is [array |-> TRUE, items |-> ...], any other value [array |-> FALSE],
\* a missing key is missing
JsonDocuments ==
    << [text |-> "{\"unused_classes\":[{\"name\":\"Foo\",\"file\":\"lib/a.dart\",\"line\":1}],"
                 \o "\"unused_methods\":[],"
                 \o "\"unused_packages\":[{\"name\":\"http\",\"line\":5},{\"name\":\"intl\"}],"
                 \o "\"unused_assets\":[{\"path\":\"assets/img/logo.png\"}]}",
        value |-> [unused_classes |->
                       [array |-> TRUE,
                        items |-> << [name |-> "Foo", file |-> "lib/a.dart", line |-> 1] >>],
                   unused_methods |-> [array |-> TRUE, items |-> << >>],
                   unused_packages |->
                       [array |-> TRUE,
                        items |-> << [name |-> "http", line |-> 5], [name |-> "intl"] >>],
                   unused_assets |->
                       [array |-> TRUE, items |-> << [path |-> "assets/img/logo.png"] >>]]],
       [text |-> "{\"unused_methods\":[{\"name\":\"run\",\"file\":\"lib/b.dart\",\"line\":2}],"
                 \o "\"unused_packages\":null,\"unused_assets\":[{\"path\":\"logo.png\"}]}",
        value |-> [unused_methods |->
                       [array |-> TRUE,
                        items |-> << [name |-> "run", file |-> "lib/b.dart", line |-> 2] >>],
                   unused_packages |-> [array |-> FALSE],
                   unused_assets |-> [array |-> TRUE, items |-> << [path |-> "logo.png"] >>]]],
       [text |-> "{}", value |-> [x \in {} |-> 0]] >>

\* what the CLI process can leave on stdout: a document, a document after the
\* build messages of dart run, nothing, text without braces, braces in the
\* wrong order, two documents
Stdouts ==
    { JsonDocuments[1].text,
      "Building package executable...\n" \o JsonDocuments[2].text \o "\n",
      JsonDocuments[3].text,
      "",
      "Usage: dart run bin/main.dart <path>",
      "} {",
      "{}\n{}" }

\* step 5 of the exec callback: the JSON block from the first "{" to the last
\* "}", JSON.parse, and every key that holds no array read as []
ParseStdout(text) ==
    LET jsonStart == IndexOf(text, "{")
        jsonEnd == LastIndexOf(text, "}")
        raw == IF jsonStart < jsonEnd + 1 THEN Substring(text, jsonStart, jsonEnd + 1) ELSE ""
        documents == {d \in Range(JsonDocuments) : d.text = raw}
        parsed == (CHOOSE d \in documents : TRUE).value
        ArrayOrEmpty(key) ==
            IF key \in DOMAIN parsed
            THEN (IF parsed[key].array THEN parsed[key].items ELSE << >>)
            ELSE << >>
    IN  IF jsonStart = -1 \/ jsonEnd = -1 \/ documents = {}
        THEN [threw |-> TRUE]
        ELSE [threw |-> FALSE,
              result |-> [unused_classes |-> ArrayOrEmpty("unused_classes"),
                          unused_methods |-> ArrayOrEmpty("unused_methods"),
                          unused_packages |-> ArrayOrEmpty("unused_packages"),
                          unused_assets |-> ArrayOrEmpty("unused_assets")]]

\* getChildren(element): element is << >> for the root and <<label>> for the
\* item of that label; the tooltips are left out
getChildren(res, analyzed, folderOpen, element) ==
    LET Group(label, count) ==
            [label |-> label, kind |-> "group",
             description |-> ToString(count) \o " item", collapsibleState |-> "Expanded"]
        Located(list, kind) ==
            [i \in 1..Len(list) |->
                [label |-> list[i].name, kind |-> kind,
                 description |-> list[i].file \o ":" \o ToString(list[i].line),
                 file |-> list[i].file, line |-> list[i].line,
                 collapsibleState |-> "None"]]
        workspaceRoot == IF folderOpen THEN RootInput ELSE ""
    IN  IF element = << >>
        THEN IF ~analyzed
             THEN << >>
             ELSE << Group("Unused Classes", Len(res.unused_classes)),
                     Group("Unused Methods", Len(res.unused_methods)),
                     Group("Unused Packages", Len(res.unused_packages)),
                     Group("Unused Assets", Len(res.unused_assets)) >>
        ELSE CASE element[1] = "Unused Classes" -> Located(res.unused_classes, "class")
               [] element[1] = "Unused Methods" -> Located(res.unused_methods, "method")
               [] element[1] = "Unused Packages" ->
                    [i \in 1..Len(res.unused_packages) |->
                        LET pkg == res.unused_packages[i]
                        IN  [label |-> pkg.name, kind |-> "package",
                             description |-> "pubspec.yaml",
                             file |-> IF workspaceRoot = "" THEN "pubspec.yaml"
                                      ELSE workspaceRoot \o "/pubspec.yaml",
                             line |-> IF "line" \in DOMAIN pkg THEN pkg.line ELSE 1,
                             collapsibleState |-> "None"]]
               [] element[1] = "Unused Assets" ->
                    [i \in 1..Len(res.unused_assets) |->
                        LET asset == res.unused_assets[i]
                        IN  [label |-> SubstringFrom(asset.path,
                                                     LastIndexOf(asset.path, "/") + 1),
                             kind |-> "asset", description |-> asset.path,
                             file |-> asset.path, line |-> 1,
                             collapsibleState |-> "None"]]
               [] OTHER -> << >>

\* _result, _hasAnalyzed and the state as a handler finds them
Snapshot == [result |-> providerResult, hasAnalyzed |-> hasAnalyzed, state |-> viewState]

\* a reset that leaves _hasAnalyzed as it is
ResetKeepsAnalyzed ==
    /\ providerResult' = EmptyResult
    /\ viewState' = "idle"
    /\ fired' = TRUE
    /\ lastCall' = "reset"
    /\ before' = Snapshot
    /\ afterReset' = TRUE
    /\ succeeded' = IF succeeded = "never" THEN "never" ELSE "before reset"
    /\ UNCHANGED unresolved
    /\ UNCHANGED <<sizeVars, cliVars, workspaceOpen, scriptExists, hasAnalyzed, inFlight, children>>

\* reset(): the title-bar button
Reset ==
    /\ providerResult' = EmptyResult
    /\ hasAnalyzed' = FALSE
    /\ viewState' = "idle"
    /\ fired' = TRUE
    /\ lastCall' = "reset"
    /\ before' = Snapshot
    /\ afterReset' = TRUE
    /\ succeeded' = IF succeeded = "never" THEN "never" ELSE "before reset"
    /\ UNCHANGED unresolved
    /\ UNCHANGED <<sizeVars, cliVars, workspaceOpen, scriptExists, inFlight, children>>

\* refresh(), steps 1 and 2: no folder is open, or the script is not in the
\* package; a message is shown and refresh returns
RefreshRejected ==
    /\ ~workspaceOpen \/ ~scriptExists
    /\ lastCall' = IF ~workspaceOpen THEN "refresh: no folder" ELSE "refresh: no script"
    /\ before' = Snapshot
    /\ afterReset' = FALSE
    /\ UNCHANGED succeeded
    /\ UNCHANGED unresolved
    /\ UNCHANGED <<sizeVars, cliVars, workspaceOpen, scriptExists, providerResult, hasAnalyzed,
                   viewState, inFlight, fired, children>>

\* refresh(), steps 3 and 4: the state becomes "analyzing" and exec starts the
\* CLI; refresh then waits for the callback
RefreshLaunch ==
    /\ workspaceOpen
    /\ scriptExists
    /\ inFlight < MaxRuns
    /\ viewState' = "analyzing"
    /\ fired' = TRUE
    /\ inFlight' = inFlight + 1
    /\ unresolved' = unresolved + 1
    /\ lastCall' = "refresh"
    /\ before' = Snapshot
    /\ afterReset' = FALSE
    /\ UNCHANGED succeeded
    /\ UNCHANGED <<sizeVars, cliVars, workspaceOpen, scriptExists, providerResult, hasAnalyzed,
                   children>>

\* an error callback that always falls back to "idle"
ExecErrorToIdle ==
    /\ inFlight > 0
    /\ viewState' = "idle"
    /\ fired' = TRUE
    /\ inFlight' = inFlight - 1
    /\ unresolved' = unresolved - 1
    /\ lastCall' = "callback: error"
    /\ before' = Snapshot
    /\ UNCHANGED afterReset
    /\ UNCHANGED succeeded
    /\ UNCHANGED <<sizeVars, cliVars, workspaceOpen, scriptExists, providerResult, hasAnalyzed,
                   children>>

\* the exec callback with an error: the process failed
ExecError ==
    /\ inFlight > 0
    /\ viewState' = IF hasAnalyzed THEN "done" ELSE "idle"
    /\ fired' = TRUE
    /\ inFlight' = inFlight - 1
    /\ unresolved' = unresolved - 1
    /\ lastCall' = "callback: error"
    /\ before' = Snapshot
    /\ UNCHANGED afterReset
    /\ UNCHANGED succeeded
    /\ UNCHANGED <<sizeVars, cliVars, workspaceOpen, scriptExists, providerResult, hasAnalyzed,
                   children>>

\* a parse failure that returns without resolving the promise
ExecUnparsableUnresolved ==
    /\ inFlight > 0
    /\ \E text \in Stdouts : ParseStdout(text).threw
    /\ providerResult' = EmptyResult
    /\ viewState' = IF hasAnalyzed THEN "done" ELSE "idle"
    /\ fired' = TRUE
    /\ inFlight' = inFlight - 1
    /\ UNCHANGED unresolved
    /\ lastCall' = "callback: unparsable"
    /\ before' = Snapshot
    /\ UNCHANGED afterReset
    /\ UNCHANGED succeeded
    /\ UNCHANGED <<sizeVars, cliVars, workspaceOpen, scriptExists, hasAnalyzed, children>>

\* the exec callback without an error, step 5 throws: no JSON block, or one
\* that JSON.parse rejects
ExecUnparsable ==
    /\ inFlight > 0
    /\ \E text \in Stdouts : ParseStdout(text).threw
    /\ providerResult' = EmptyResult
    /\ viewState' = IF hasAnalyzed THEN "done" ELSE "idle"
    /\ fired' = TRUE
    /\ inFlight' = inFlight - 1
    /\ unresolved' = unresolved - 1
    /\ lastCall' = "callback: unparsable"
    /\ before' = Snapshot
    /\ UNCHANGED afterReset
    /\ UNCHANGED succeeded
    /\ UNCHANGED <<sizeVars, cliVars, workspaceOpen, scriptExists, hasAnalyzed, children>>

\* a success callback that does not mark the provider as analyzed
ExecSuccessUnmarked ==
    /\ inFlight > 0
    /\ \E text \in Stdouts :
          /\ ~ParseStdout(text).threw
          /\ providerResult' = ParseStdout(text).result
    /\ viewState' = "done"
    /\ fired' = TRUE
    /\ inFlight' = inFlight - 1
    /\ unresolved' = unresolved - 1
    /\ lastCall' = "callback: success"
    /\ before' = Snapshot
    /\ UNCHANGED afterReset
    /\ succeeded' = "since reset"
    /\ UNCHANGED <<sizeVars, cliVars, workspaceOpen, scriptExists, hasAnalyzed, children>>

\* the exec callback without an error, the output parsed: steps 5 and 6
ExecSuccess ==
    /\ inFlight > 0
    /\ \E text \in Stdouts :
          /\ ~ParseStdout(text).threw
          /\ providerResult' = ParseStdout(text).result
    /\ hasAnalyzed' = TRUE
    /\ viewState' = "done"
    /\ fired' = TRUE
    /\ inFlight' = inFlight - 1
    /\ unresolved' = unresolved - 1
    /\ lastCall' = "callback: success"
    /\ before' = Snapshot
    /\ UNCHANGED afterReset
    /\ succeeded' = "since reset"
    /\ UNCHANGED <<sizeVars, cliVars, workspaceOpen, scriptExists, children>>

\* the view asks for the root of the tree: one call of getChildren(); the
\* items it returns are expanded, and their children are asked for by later
\* calls, between which reset(), refresh() and the callbacks can run
ViewGetChildren ==
    /\ LET roots == getChildren(providerResult, hasAnalyzed, workspaceOpen, << >>)
       IN  children' = [i \in 1..Len(roots) |->
                           [item |-> roots[i], asked |-> FALSE, children |-> << >>]]
    /\ fired' = FALSE
    /\ lastCall' = "getChildren"
    /\ before' = Snapshot
    /\ UNCHANGED afterReset
    /\ UNCHANGED succeeded
    /\ UNCHANGED unresolved
    /\ UNCHANGED <<sizeVars, cliVars, workspaceOpen, scriptExists, providerResult, hasAnalyzed,
                   viewState, inFlight>>

\* the view asks for the children of an item it holds: one call of
\* getChildren(item), answered from _result as it is at that moment
ViewGetChildrenOf ==
    /\ \E i \in 1..Len(children) :
           children' =
               [children EXCEPT
                   ![i] = [item |-> children[i].item, asked |-> TRUE,
                           children |-> getChildren(providerResult, hasAnalyzed,
                                                    workspaceOpen,
                                                    << children[i].item.label >>)]]
    /\ lastCall' = "getChildren(item)"
    /\ before' = Snapshot
    /\ UNCHANGED afterReset
    /\ UNCHANGED succeeded
    /\ UNCHANGED unresolved
    /\ UNCHANGED <<sizeVars, cliVars, workspaceOpen, scriptExists, providerResult, hasAnalyzed,
                   viewState, inFlight, fired>>

\* no CLI run of the first part is under way: the CLI is the process the
\* extension starts, seen here by its exit and its output only
CliAtRest ==
    /\ entry = "extension"
    /\ args = << >>
    /\ rootExists = FALSE
    /\ libExists = FALSE
    /\ lib = EmptyMap
    /\ manifest = AbsentManifest
    /\ disk = {}
    /\ previous = << >>
    /\ pc = "extension"
    /\ exitCode = 0
    /\ stdout = << >>
    /\ dartFiles = << >>
    /\ fileIdx = 0
    /\ classInfos = << >>
    /\ methodInfos = << >>
    /\ declarationCountByName = EmptyMap
    /\ methodDeclarationCountByName = EmptyMap
    /\ identifierCountByName = EmptyMap
    /\ unusedClasses = << >>
    /\ unusedMethods = << >>
    /\ packageNames = << >>
    /\ lineNumberByPackage = EmptyMap
    /\ importedPackages = {}
    /\ unusedPackages = << >>
    /\ declaredAssets = << >>
    /\ allStringLiterals = {}
    /\ unusedAssets = << >>
    /\ result = EmptyMap

ProviderInit ==
    /\ workspaceOpen \in BOOLEAN
    /\ scriptExists \in BOOLEAN
    /\ ProviderConstructed
    /\ CliAtRest
    /\ NoArchive

ProviderNext ==
    \/ Reset
    \/ RefreshRejected
    \/ RefreshLaunch
    \/ ExecError
    \/ ExecUnparsable
    \/ ExecSuccess
    \/ ViewGetChildren
    \/ ViewGetChildrenOf

ProviderSpec == ProviderInit /\ [][ProviderNext]_vars

\* ------------------------------------------------------------------------
\* The VS Code extension: the size analysis of an .apk or .ipa (extension.ts)
\* ------------------------------------------------------------------------

\* the zip entries an enumerated archive can hold, in the order of the listing;
\* none of them meets KNOWN_COMPONENTS or rules 1 to 10 of resolveIpaComponent
ArchiveNames ==
    << "Info.plist", "en.lproj/a.strings", "fr.lproj/a.strings", "icon.png", "PkgInfo",
       "r.woff2", "shot.JPEG", "b/icon.png", "Podfile.lock" >>

\* the entries unzip -v lists: each of the first MaxEntries names is there
\* with a compressed size of 0, 1 or 2 bytes, or is not there
EntryLists ==
    LET EntrySizes == {0, 1, 2}
        RECURSIVE Lists(_)
        Lists(n) ==
            IF n = 0 THEN {<< >>}
            ELSE LET shorter == Lists(n - 1)
                 IN  shorter \cup
                     {l \o << [name |-> ArchiveNames[n], compressedBytes |-> size] >> :
                          l \in shorter, size \in EntrySizes}
    IN  Lists(MaxEntries)

\* /\.(e1|e2|...)$/i.test(rawName): the name ends with a dot and one of the
\* extensions, in either case of the letters
MatchesExtension(rawName, extensions) ==
    LET upper == "ABCDEFGHIJKLMNOPQRSTUVWXYZ"
        lower == "abcdefghijklmnopqrstuvwxyz"
        Folded(c) ==
            IF \E i \in 1..Len(upper) : SubSeq(upper, i, i) = c
            THEN LET i == CHOOSE i \in 1..Len(upper) : SubSeq(upper, i, i) = c
                 IN  SubSeq(lower, i, i)
            ELSE c
        RECURSIVE FoldCase(_)
        FoldCase(str) ==
            IF str = "" THEN "" ELSE Folded(CharAt(str, 0)) \o FoldCase(SubstringFrom(str, 1))
        folded == FoldCase(rawName)
    IN  \E e \in extensions : EndsWith(folded, "." \o e)

\* png|jpg|jpeg|webp|gif|svg, which is also png|jpe?g|webp|gif|svg
ImageExtensions == {"png", "jpg", "jpeg", "webp", "gif", "svg"}

\* ttf|otf|woff2?
FontExtensions == {"ttf", "otf", "woff", "woff2"}

\* resolveComponent, for a name that meets none of KNOWN_COMPONENTS: the rules
\* after the loop
resolveComponent(rawName, fullPath) ==
    IF EndsWith(rawName, ".so")
    THEN [label |-> "Native Library: " \o rawName, category |-> "Native"]
    ELSE IF MatchesExtension(rawName, ImageExtensions)
    THEN [label |-> "Image Asset: " \o rawName, category |-> "Assets"]
    ELSE IF MatchesExtension(rawName, FontExtensions)
    THEN [label |-> "Font Asset: " \o rawName, category |-> "Assets"]
    ELSE [label |-> rawName, category |-> "Other"]

\* resolveIpaComponent, for a name that meets none of rules 1 to 10: rules 11
\* to 13 and the default
resolveIpaComponent(rawName, fullPath) ==
    IF MatchesExtension(rawName, ImageExtensions)
    THEN [label |-> "Image Asset: " \o rawName, category |-> "Assets"]
    ELSE IF MatchesExtension(rawName, FontExtensions)
    THEN [label |-> "Font Asset: " \o rawName, category |-> "Assets"]
    ELSE IF Contains(fullPath, ".lproj/")
    THEN [label |-> "Localisation Resources", category |-> "Other"]
    ELSE IF Contains(fullPath, "_CodeSignature/")
    THEN [label |-> "Code Signature", category |-> "Other"]
    ELSE [label |-> rawName, category |-> "Other"]

\* Array.sort((a, b) => b.sizeBytes - a.sizeBytes): by size, the largest
\* first; the sort is stable
SortBySizeDescending(items) ==
    LET RECURSIVE Insert(_, _)
        Insert(sorted, x) ==
            IF sorted = << >> THEN << x >>
            ELSE IF Head(sorted).sizeBytes >= x.sizeBytes
                 THEN << Head(sorted) >> \o Insert(Tail(sorted), x)
                 ELSE << x >> \o sorted
        RECURSIVE Sort(_)
        Sort(list) ==
            IF list = << >> THEN << >>
            ELSE Insert(Sort(SubSeq(list, 1, Len(list) - 1)), list[Len(list)])
    IN  Sort(items)

\* what both analyses return: the sorted items cut after n, and the bytes of
\* each category
ReportOf(file, allItems, sorted, n) ==
    LET RECURSIVE CategoryBytes(_, _)
        CategoryBytes(list, category) ==
            IF list = << >> THEN 0
            ELSE (IF Head(list).category = category THEN Head(list).sizeBytes ELSE 0)
                     + CategoryBytes(Tail(list), category)
        dartCodeBytes == CategoryBytes(allItems, "Dart")
        nativeBytes == CategoryBytes(allItems, "Native")
        assetsBytes == CategoryBytes(allItems, "Assets")
        topItems == SubSeq(sorted, 1, IF Len(sorted) < n THEN Len(sorted) ELSE n)
        rest == file.fileSize - dartCodeBytes - nativeBytes - assetsBytes
    IN  [state |-> "returned", fileType |-> file.fileType, totalBytes |-> file.fileSize,
         dartCodeBytes |-> dartCodeBytes, nativeBytes |-> nativeBytes,
         assetsBytes |-> assetsBytes, otherBytes |-> IF rest > 0 THEN rest ELSE 0,
         topItems |-> topItems]

\* analyzeApkDirect, step 3: one item for each entry
ApkItems(entries) ==
    [i \in 1..Len(entries) |->
        LET component == resolveComponent(Basename(entries[i].name), entries[i].name)
        IN  [name |-> component.label, sizeBytes |-> entries[i].compressedBytes,
             category |-> component.category]]

\* analyzeIpaDirect, step 3: one item for each entry that is not empty
IpaItems(entries) ==
    LET stored == SelectSeq(entries, LAMBDA e : e.compressedBytes > 0)
    IN  [i \in 1..Len(stored) |->
            LET component == resolveIpaComponent(Basename(stored[i].name), stored[i].name)
            IN  [name |-> component.label, sizeBytes |-> stored[i].compressedBytes,
                 category |-> component.category]]

\* analyzeIpaDirect: the items of one label become one, in the order in which
\* the labels are first met, with the category of the first
Aggregated(items) ==
    LET RECURSIVE Merge(_)
        Merge(list) ==
            IF list = << >> THEN << >>
            ELSE LET earlier == Merge(SubSeq(list, 1, Len(list) - 1))
                     item == list[Len(list)]
                 IN  IF \E i \in 1..Len(earlier) : earlier[i].name = item.name
                     THEN [i \in 1..Len(earlier) |->
                              IF earlier[i].name = item.name
                              THEN [earlier[i] EXCEPT !.sizeBytes = @ + item.sizeBytes]
                              ELSE earlier[i]]
                     ELSE earlier \o << item >>
    IN  Merge(items)

\* analyzeApkDirect(apkPath) on an archive with entries
AnalyzeApkDirect ==
    /\ archive.fileType = "apk"
    /\ report.state = "none"
    /\ archive.entries # << >>
    /\ LET allItems == ApkItems(archive.entries)
       IN  report' = ReportOf(archive, allItems, SortBySizeDescending(allItems), 5)
    /\ UNCHANGED <<cliVars, providerVars, archive>>

\* analyzeIpaDirect(ipaPath) on an archive with entries
AnalyzeIpaDirect ==
    /\ archive.fileType = "ipa"
    /\ report.state = "none"
    /\ archive.entries # << >>
    /\ LET allItems == IpaItems(archive.entries)
       IN  report' = ReportOf(archive, allItems, SortBySizeDescending(Aggregated(allItems)), 10)
    /\ UNCHANGED <<cliVars, providerVars, archive>>

\* either analysis when no line of the listing is an entry: it throws
AnalyzeNoEntries ==
    /\ archive.fileType \in {"apk", "ipa"}
    /\ report.state = "none"
    /\ archive.entries = << >>
    /\ report' = [state |-> "threw"]
    /\ UNCHANGED <<cliVars, providerVars, archive>>

\* the file is at least as large as what it stores
SizeInit ==
    /\ workspaceOpen = FALSE
    /\ scriptExists = FALSE
    /\ ProviderConstructed
    /\ CliAtRest
    /\ \E fileType \in {"apk", "ipa"}, entries \in EntryLists, overhead \in {0, 1} :
          LET RECURSIVE Stored(_)
              Stored(list) ==
                  IF list = << >> THEN 0 ELSE Head(list).compressedBytes + Stored(Tail(list))
          IN  archive = [fileType |-> fileType, fileSize |-> Stored(entries) + overhead,
                         entries |-> entries]
    /\ report = [state |-> "none"]

SizeNext ==
    \/ AnalyzeApkDirect
    \/ AnalyzeIpaDirect
    \/ AnalyzeNoEntries

SizeSpec == SizeInit /\ [][SizeNext]_vars

\* ------------------------------------------------------------------------
\* The project as the claims speak of it
\* ------------------------------------------------------------------------

\* the files under lib/ that are read successfully, relative to the root
ReadPaths == {f \in DOMAIN lib : lib[f]}

UnitAt(f) == UnitOf(Join(RootInput, f))

\* the token positions of the files read
Sites == UNION {{<<f, i>> : i \in 1..Len(UnitAt(f).tokens)} : f \in ReadPaths}

TokenAt(s) == UnitAt(s[1]).tokens[s[2]]

\* census[N]: the identifier-shaped tokens with lexeme N
Census(N) ==
    Cardinality({s \in Sites : TokenAt(s).lexeme = N /\ identifierPattern(N)})

\* the recorded declaration sites: every class declaration, and every method or
\* function declaration whose name is not excluded
ClassSites == {s \in Sites : TokenAt(s).decl = "class"}

MethodSites ==
    {s \in Sites : TokenAt(s).decl \in {"method", "function"}
                      /\ TokenAt(s).lexeme \notin Excluded}

\* declCount[K][N] over the sites of one kind
DeclCount(sites, N) == Cardinality({s \in sites : TokenAt(s).lexeme = N})

\* the report entry of a declaration site
EntryOf(s) == [name |-> TokenAt(s).lexeme, file |-> s[1], line |-> TokenAt(s).line]

\* analyzeProject went through its loops and has just returned its report
Returned == libExists /\ pc = "return"

NamesOf(list) == {list[i].name : i \in 1..Len(list)}

PathsOf(list) == {list[i].path : i \in 1..Len(list)}

\* x occurs in s as a substring
Occurs(s, x) == \E i \in 1..(Len(s) - Len(x) + 1) : SubSeq(s, i, i + Len(x) - 1) = x

\* C1: a recorded declaration of kind K named N is in the list of its kind
\* exactly when census[N] <= declCount[K][N]
C1_UnusedIffCensusAtMostDeclCount ==
    Returned =>
        LET classSites == ClassSites
            methodSites == MethodSites
        IN  /\ \A s \in classSites :
                  EntryOf(s) \in Range(result["unused_classes"])
                      <=> Census(TokenAt(s).lexeme) <= DeclCount(classSites, TokenAt(s).lexeme)
            /\ \A s \in methodSites :
                  EntryOf(s) \in Range(result["unused_methods"])
                      <=> Census(TokenAt(s).lexeme)
                              <= DeclCount(methodSites, TokenAt(s).lexeme)

\* Scenario A: Foo is reported, Bar (constructed in lib/b.dart) is not
C1_Witness ==
    /\ Returned
    /\ {"lib/a.dart", "lib/b.dart"} \subseteq ReadPaths
    /\ result["unused_classes"] = <<[name |-> "Foo", file |-> "lib/a.dart", line |-> 1]>>
    /\ result["unused_methods"] = << >>

\* every token with lexeme N in the files read is the name token of a
\* declaration, of a class or of a method or function
OnlyAtDeclarationSites(N) ==
    \A s \in Sites : TokenAt(s).lexeme = N => TokenAt(s).decl # "none"

\* C2: a recorded declaration is reported when its name occurs only at
\* declaration sites (of any kind), and is not reported when the name has any
\* other occurrence
C2_ReportedIffOnlyAtDeclarationSites ==
    Returned =>
        /\ \A s \in ClassSites :
              EntryOf(s) \in Range(result["unused_classes"])
                  <=> OnlyAtDeclarationSites(TokenAt(s).lexeme)
        /\ \A s \in MethodSites :
              EntryOf(s) \in Range(result["unused_methods"])
                  <=> OnlyAtDeclarationSites(TokenAt(s).lexeme)

\* C3: no method or function with an excluded name is ever recorded, so none
\* is ever among the unused methods
C3_ExcludedNeverRecorded ==
    /\ NamesOf(methodInfos) \cap Excluded = {}
    /\ NamesOf(unusedMethods) \cap Excluded = {}
    /\ \A i \in 1..Len(stdout) :
          "unused_methods" \in DOMAIN stdout[i]
              => NamesOf(stdout[i]["unused_methods"]) \cap Excluded = {}

\* Scenario E: dispose and main are declared, never called, and other methods
\* are reported
C3_Witness ==
    /\ pc = "exit"
    /\ {"lib/b.dart", "lib/c.dart"} \subseteq ReadPaths
    /\ \E s \in Sites : TokenAt(s).decl = "method" /\ TokenAt(s).lexeme = "dispose"
    /\ Census("dispose") = 1
    /\ Len(stdout) = 1
    /\ "Foo" \in NamesOf(stdout[1]["unused_methods"])

\* the manifest is there, was read, and its root is a mapping
ManifestUsable == manifest.exists /\ manifest.readable /\ manifest.yaml.t = "map"

\* the <<name, value>> entries of the two dependency sections
DependencyEntries ==
    UNION {LET node == YGet(manifest.yaml, section)
           IN  IF node.t = "map" THEN Range(node.entries) ELSE {}
           : section \in {"dependencies", "dev_dependencies"}}

\* the value of a dependency is a map with an sdk key
SdkPinned(value) ==
    value.t = "map" /\ \E i \in 1..Len(value.entries) : value.entries[i][1] = "sdk"

\* the value of a dependency is a map whose sdk key has a value: sdk: flutter
\* is one, an sdk key with nothing after it is not
SdkPinnedToValue(value) ==
    /\ value.t = "map"
    /\ \E i \in 1..Len(value.entries) :
           value.entries[i][1] = "sdk" /\ value.entries[i][2].t # "null"

\* the URI is a package: URI whose segment after the prefix, up to the first
\* '/' (or to the end where there is none), is n
UriNamesPackage(uri, n) ==
    \/ uri = "package:" \o n
    \/ StartsWith(uri, "package:" \o n \o "/")

\* some import or export directive of a file read names the package n
ImportedSomewhere(n) ==
    \E f \in ReadPaths :
        \E i \in 1..Len(UnitAt(f).directives) :
            LET d == UnitAt(f).directives[i]
            IN  /\ d.kind \in {"import", "export"}
                /\ d.uri.k = "simple"
                /\ UriNamesPackage(d.uri.value, n)

\* C4 as claimed, an SDK pin being any map with an sdk key: a declared package
\* that is not an SDK pin is in unused_packages exactly when no import or
\* export URI of a file read names it; an SDK-pinned entry is never in
\* unused_packages
C4_UnusedPackageIffNeverImported ==
    (Returned /\ ManifestUsable) =>
        \A e \in DependencyEntries :
            IF SdkPinned(e[2])
            THEN e[1] \notin NamesOf(result["unused_packages"])
            ELSE e[1] \in NamesOf(result["unused_packages"]) <=> ~ImportedSomewhere(e[1])

\* C4, an SDK pin being a map whose sdk key has a value: a declared package
\* that is not such a pin is in unused_packages exactly when no import or
\* export URI of a file read names it, and a package so pinned is never in
\* unused_packages
C4_UnusedIffNeverImportedUnlessPinnedToAValue ==
    (Returned /\ ManifestUsable) =>
        \A e \in DependencyEntries :
            IF SdkPinnedToValue(e[2])
            THEN e[1] \notin NamesOf(result["unused_packages"])
            ELSE e[1] \in NamesOf(result["unused_packages"]) <=> ~ImportedSomewhere(e[1])

\* Scenario B: http is imported by lib/b.dart, intl by nothing; flutter is an
\* SDK pin
C4_Witness ==
    /\ Returned
    /\ manifest.readable
    /\ manifest.yaml = ManifestAYaml
    /\ ReadPaths = {"lib/a.dart", "lib/b.dart"}
    /\ NamesOf(result["unused_packages"]) = {"intl", "lints"}
    /\ ImportedSomewhere("http")

\* the declared assets that survive the exclusion of the font and .env files
DeclaredAssetSet ==
    IF ManifestUsable
    THEN IF HasAssetList(manifest.yaml)
         THEN UNION {Range(d) : d \in DeclaredAssetsOf(manifest.yaml, disk, RootInput)}
         ELSE {}
    ELSE {}

\* the literal fragments of the files read
AllLiterals == UNION {Range(StringLiteralCollector(UnitAt(f))) : f \in ReadPaths}

\* C5: a declared asset is in unused_assets exactly when no literal fragment
\* contains its path, its basename, or its stem where the stem is longer than
\* 3 characters
C5_UnusedAssetIffNoFragmentMatches ==
    Returned =>
        \A a \in DeclaredAssetSet :
            a \in PathsOf(result["unused_assets"])
                <=> \A lit \in AllLiterals :
                        /\ ~Occurs(lit, a)
                        /\ ~Occurs(lit, Basename(a))
                        /\ Len(BasenameWithoutExtension(a)) > 3
                               => ~Occurs(lit, BasenameWithoutExtension(a))

\* Scenario D: assets/abc.svg is reported although a fragment contains its
\* stem abc, and assets/logo.png is not reported
C5_Witness ==
    /\ Returned
    /\ {"assets/abc.svg", "assets/logo.png"} \subseteq DeclaredAssetSet
    /\ \E lit \in AllLiterals :
          /\ Occurs(lit, "abc")
          /\ ~Occurs(lit, "abc.svg")
    /\ \E lit \in AllLiterals : Occurs(lit, "logo")
    /\ "assets/abc.svg" \in PathsOf(result["unused_assets"])
    /\ "assets/logo.png" \notin PathsOf(result["unused_assets"])

\* the asset values of flutter.fonts[*].fonts[*]
DeclaredFontFiles ==
    IF ManifestUsable
    THEN IF IsYamlMap(YGet(manifest.yaml, "flutter"))
         THEN FontAssetPaths(YGet(manifest.yaml, "flutter"))
         ELSE {}
    ELSE {}

\* the path is a declared font file, or its basename is .env or begins with
\* .env.
FontOrEnvFile(path) ==
    \/ path \in DeclaredFontFiles
    \/ Basename(path) = ".env"
    \/ (Len(Basename(path)) >= 5 /\ SubSeq(Basename(path), 1, 5) = ".env.")

\* C6: no font file and no .env file is ever in unused_assets
C6_FontAndEnvFilesNeverReported ==
    /\ \A p \in PathsOf(unusedAssets) : ~FontOrEnvFile(p)
    /\ pc = "return" => \A p \in PathsOf(result["unused_assets"]) : ~FontOrEnvFile(p)
    /\ \A i \in 1..Len(stdout) :
          "unused_assets" \in DOMAIN stdout[i]
              => \A p \in PathsOf(stdout[i]["unused_assets"]) : ~FontOrEnvFile(p)

\* Scenario F: fonts/r.ttf is a single-file asset entry and a font file,
\* assets/.env is a single-file entry, both are on the disk, no file of lib/
\* is read, and the other declared assets are reported
C6_Witness ==
    /\ Returned
    /\ manifest.readable
    /\ manifest.yaml = ManifestBYaml
    /\ disk = AssetFiles
    /\ ReadPaths = {}
    /\ "fonts/r.ttf" \in DeclaredFontFiles
    /\ PathsOf(result["unused_assets"]) =
           {"assets/logo.png", "assets/sub/deep.png", "assets/abc.svg"}

\* C7: a command-line run on a root without lib/ writes the report with the
\* four lists present and empty, and the exit code stays 0
C7_NoLibReportHasFourEmptyLists ==
    (entry = "cli" /\ pc = "exit" /\ rootExists /\ ~libExists) =>
        /\ exitCode = 0
        /\ Len(stdout) = 1
        /\ DOMAIN stdout[1] =
               {"unused_classes", "unused_methods", "unused_packages", "unused_assets"}
        /\ \A key \in DOMAIN stdout[1] : stdout[1][key] = << >>

\* C8: the run ends with 64 when no root is given and with 66 when the root
\* does not exist, and writes no report then; every other run writes one
\* report and ends with 0
C8_OnlyUsageAndMissingRootAreFatal ==
    entry = "cli" =>
        IF pc = "exit"
        THEN IF args = << >> THEN exitCode = 64 /\ stdout = << >>
             ELSE IF ~rootExists THEN exitCode = 66 /\ stdout = << >>
             ELSE exitCode = 0 /\ Len(stdout) = 1
        ELSE exitCode = 0 /\ stdout = << >>

\* a run with an unreadable manifest and an unreadable source file still
\* writes its report and ends with 0
C8_Witness ==
    /\ entry = "cli"
    /\ pc = "exit"
    /\ libExists
    /\ manifest.exists
    /\ ~manifest.readable
    /\ \E f \in DOMAIN lib : ~lib[f]
    /\ exitCode = 0
    /\ Len(stdout) = 1

RECURSIVE ClassesOfFiles(_)
\* the class declarations of these files, in order
ClassesOfFiles(files) ==
    IF files = << >> THEN << >>
    ELSE ClassCollector(Head(files), UnitOf(Head(files))) \o ClassesOfFiles(Tail(files))

RECURSIVE MethodsOfFiles(_)
\* the method and function declarations of these files, in order
MethodsOfFiles(files) ==
    IF files = << >> THEN << >>
    ELSE MethodCollector(Head(files), UnitOf(Head(files))) \o MethodsOfFiles(Tail(files))

RECURSIVE LexemesOfFiles(_)
\* the identifier lexemes of these files
LexemesOfFiles(files) ==
    IF files = << >> THEN << >>
    ELSE collectIdentifierLexemes(UnitOf(Head(files))) \o LexemesOfFiles(Tail(files))

\* the sorted absolute paths of a lib/ that holds exactly these files
FilesOf(paths) == SortStrings(CHOOSE o \in Orders({Join(RootInput, f) : f \in paths}) : TRUE)

\* unused_classes of a project whose lib/ holds exactly these files
UnusedClassesFor(paths) ==
    LET files == FilesOf(paths)
        classes == ClassesOfFiles(files)
    IN  UnusedDeclarations(classes, CountAll(EmptyMap, Names(classes)),
                           CountAll(EmptyMap, LexemesOfFiles(files)))

\* unused_methods of a project whose lib/ holds exactly these files
UnusedMethodsFor(paths) ==
    LET files == FilesOf(paths)
        methods == MethodsOfFiles(files)
    IN  UnusedDeclarations(methods, CountAll(EmptyMap, Names(methods)),
                           CountAll(EmptyMap, LexemesOfFiles(files)))

\* unused_packages of a project whose lib/ holds exactly these files
UnusedPackagesFor(paths) ==
    IF PackagesEarlyReturn(manifest) THEN << >>
    ELSE UnusedPackagesOf(PackageNames(manifest.yaml),
                          UNION {ImportedPackagesOf(ImportCollector(UnitAt(f))) : f \in paths},
                          LineNumberByPackage(manifest.text))

\* the lists unused_assets can be for a project whose lib/ holds exactly these
\* files
UnusedAssetsFor(paths) ==
    IF AssetsEarlyReturn(manifest) THEN {<< >>}
    ELSE {UnusedAssetsOf(declared,
                         UNION {Range(StringLiteralCollector(UnitAt(f))) : f \in paths})
          : declared \in DeclaredAssetsOf(manifest.yaml, disk, RootInput)}

\* C9: with files that cannot be read, the report is the one of the same
\* project without those files
C9_UnreadableFileIsAsIfAbsent ==
    Returned =>
        /\ result["unused_classes"] = UnusedClassesFor(ReadPaths)
        /\ result["unused_methods"] = UnusedMethodsFor(ReadPaths)
        /\ result["unused_packages"] = UnusedPackagesFor(ReadPaths)
        /\ result["unused_assets"] \in UnusedAssetsFor(ReadPaths)

\* lib/b.dart cannot be read: Bar is reported like Foo, and http like intl
C9_Witness ==
    /\ Returned
    /\ lib = [f \in {"lib/a.dart", "lib/b.dart"} |-> f = "lib/a.dart"]
    /\ manifest.readable
    /\ manifest.yaml = ManifestAYaml
    /\ NamesOf(result["unused_classes"]) = {"Foo", "Bar"}
    /\ "http" \in NamesOf(result["unused_packages"])

\* the manifest is absent, cannot be read, or its root is not a mapping
ManifestUnusable == ~manifest.exists \/ ~manifest.readable \/ manifest.yaml.t # "map"

\* C10: with an unusable manifest no package and no asset is reported, nothing
\* fails, and the classes and methods are those of the sources
C10_UnusableManifestOnlySilencesPackagesAndAssets ==
    /\ (Returned /\ ManifestUnusable) =>
           /\ result["unused_packages"] = << >>
           /\ result["unused_assets"] = << >>
           /\ result["unused_classes"] = UnusedClassesFor(ReadPaths)
           /\ result["unused_methods"] = UnusedMethodsFor(ReadPaths)
    /\ (entry = "cli" /\ pc = "exit" /\ libExists /\ ManifestUnusable) =>
           /\ exitCode = 0
           /\ Len(stdout) = 1
           /\ stdout[1]["unused_packages"] = << >>
           /\ stdout[1]["unused_assets"] = << >>

\* the manifest is there but cannot be read; Foo is reported all the same
C10_Witness ==
    /\ entry = "cli"
    /\ pc = "exit"
    /\ manifest.exists
    /\ ~manifest.readable
    /\ ReadPaths = {"lib/a.dart", "lib/b.dart"}
    /\ exitCode = 0
    /\ Len(stdout) = 1
    /\ NamesOf(stdout[1]["unused_classes"]) = {"Foo"}
    /\ stdout[1]["unused_packages"] = << >>

\* the files of the disk that are immediate children of the directory entry
ImmediateChildren(e) ==
    {f \in disk : /\ Len(f) > Len(e)
                  /\ SubSeq(f, 1, Len(e)) = e
                  /\ \A i \in (Len(e) + 1)..Len(f) : SubSeq(f, i, i) # "/"}

\* the entries of flutter.assets
AssetEntries ==
    IF ManifestUsable
    THEN IF HasAssetList(manifest.yaml)
         THEN {YToString(n) : n \in Range(YGet(YGet(manifest.yaml, "flutter"), "assets").items)}
         ELSE {}
    ELSE {}

\* what an entry contributes: a directory entry its immediate files, a file
\* entry itself where the file exists, in both cases without the font and
\* .env files
EntryContribution(e) ==
    IF SubSeq(e, Len(e), Len(e)) = "/"
    THEN {f \in ImmediateChildren(e) : ~FontOrEnvFile(f)}
    ELSE IF e \in disk /\ ~FontOrEnvFile(e) THEN {e} ELSE {}

\* what an entry contributes where a file entry is exempt from the exclusion
EntryContributionAsClaimed(e) ==
    IF SubSeq(e, Len(e), Len(e)) = "/"
    THEN {f \in ImmediateChildren(e) : ~FontOrEnvFile(f)}
    ELSE IF e \in disk THEN {e} ELSE {}

\* C11 (amended): the declared assets are the immediate files of the directory
\* entries and the existing files of the file entries, in both cases minus the
\* font and .env files
C11_DeclaredAssetsAreImmediateFilesAndExistingEntries ==
    /\ pc = "assetScan" =>
           Range(declaredAssets) = UNION {EntryContribution(e) : e \in AssetEntries}
    /\ (Returned /\ AllLiterals = {}) =>
           PathsOf(result["unused_assets"]) = UNION {EntryContribution(e) : e \in AssetEntries}

\* C11 (as stated): a file entry contributes its path if and only if the file
\* exists
C11_FileEntryKeptIffItExists ==
    /\ pc = "assetScan" =>
           Range(declaredAssets) = UNION {EntryContributionAsClaimed(e) : e \in AssetEntries}
    /\ (Returned /\ AllLiterals = {}) =>
           PathsOf(result["unused_assets"]) =
               UNION {EntryContributionAsClaimed(e) : e \in AssetEntries}

\* manifest B with assets/logo.png missing: the file entry of the missing file
\* adds nothing, assets/sub/ adds its one file
C11_Witness ==
    /\ pc = "assetScan"
    /\ manifest.readable
    /\ manifest.yaml = ManifestBYaml
    /\ disk = AssetFiles \ {"assets/logo.png"}
    /\ Range(declaredAssets) = {"assets/sub/deep.png", "assets/abc.svg"}

\* the one literal of the file analysed, where lib/ holds an enumerated literal
AnalysedLiteral == LiteralOf(CodeOfPath(CHOOSE f \in DOMAIN lib : TRUE))

\* analyzeProject has returned from a project that holds an interpolated string
InterpolationAnalysed ==
    /\ pc = "return"
    /\ lib \in LiteralLibs
    /\ AnalysedLiteral.k = "interp"

\* elements i..j are literal segments
SegmentsOnly(elements, i, j) == \A k \in i..j : elements[k].k = "istr"

\* the text of the segments i..j
RunText(elements, i, j) == ConcatStrings([k \in 1..(j - i + 1) |-> elements[i + k - 1].value])

\* i..j is a run of consecutive segments that cannot be extended
MaximalRun(elements, i, j) ==
    /\ SegmentsOnly(elements, i, j)
    /\ i = 1 \/ elements[i - 1].k # "istr"
    /\ j = Len(elements) \/ elements[j + 1].k # "istr"

\* the values of the string literals inside the interpolated expressions
InnerValues(elements) ==
    UNION {{elements[i].strings[k].value : k \in 1..Len(elements[i].strings)} :
              i \in {h \in 1..Len(elements) : elements[h].k = "iexpr"}}

\* C12: of an interpolated string every literal segment and every run of
\* consecutive segments is collected, and every fragment collected is the text
\* of consecutive segments with no interpolated expression between them (or a
\* literal inside an expression); '/logo.png' of '$x/logo.png' is collected
\* and assets/logo.png is not reported
C12_InterpolationSegmentsNeverJoinAcrossExpressions ==
    InterpolationAnalysed =>
        LET elements == AnalysedLiteral.elements
            positions == 1..Len(elements)
        IN  /\ \A i \in positions :
                  elements[i].k = "istr" => elements[i].value \in allStringLiterals
            /\ \A i \in positions : \A j \in i..Len(elements) :
                  MaximalRun(elements, i, j) => RunText(elements, i, j) \in allStringLiterals
            /\ allStringLiterals \subseteq
                   {RunText(elements, r[1], r[2]) :
                       r \in {q \in positions \X positions :
                                 q[1] <= q[2] /\ SegmentsOnly(elements, q[1], q[2])}}
                   \cup InnerValues(elements)
            /\ elements = << IStr(""), IExpr(<< >>), IStr("/logo.png") >> =>
                  /\ "/logo.png" \in allStringLiterals
                  /\ "assets/logo.png" \notin PathsOf(result["unused_assets"])

\* '$x/logo.png': assets/logo.png is used, the other declared assets are not
C12_Witness ==
    /\ InterpolationAnalysed
    /\ AnalysedLiteral.elements = << IStr(""), IExpr(<< >>), IStr("/logo.png") >>
    /\ allStringLiterals = {"", "/logo.png"}
    /\ PathsOf(result["unused_assets"]) = {"assets/sub/deep.png", "assets/abc.svg"}

\* analyzeProject has returned from a project that holds an adjacent-strings
\* literal
AdjacentAnalysed ==
    /\ pc = "return"
    /\ lib \in LiteralLibs
    /\ AnalysedLiteral.k = "adjacent"

\* parts i..j are plain literals
PlainOnly(parts, i, j) == \A k \in i..j : parts[k].k = "simple"

\* the text of the plain parts i..j
PlainText(parts, i, j) == ConcatStrings([k \in 1..(j - i + 1) |-> parts[i + k - 1].value])

\* C13: of an adjacent-strings literal every plain part is collected; the
\* concatenation of all parts is collected when all parts are plain; and when
\* a part is an interpolated string every fragment collected is the text of
\* plain parts with no interpolated part between them, or a segment of an
\* interpolated part
C13_AdjacentPartsNeverJoinAcrossInterpolation ==
    AdjacentAnalysed =>
        LET parts == AnalysedLiteral.strings
            positions == 1..Len(parts)
        IN  /\ \A i \in positions :
                  parts[i].k = "simple" => parts[i].value \in allStringLiterals
            /\ PlainOnly(parts, 1, Len(parts)) =>
                  PlainText(parts, 1, Len(parts)) \in allStringLiterals
            /\ ~PlainOnly(parts, 1, Len(parts)) =>
                  allStringLiterals \subseteq
                      {PlainText(parts, r[1], r[2]) :
                          r \in {q \in positions \X positions :
                                    q[1] <= q[2] /\ PlainOnly(parts, q[1], q[2])}}
                      \cup {""}

\* the first loop of analyzeProject is over
CensusComplete == pc \in {"packages", "packageScan", "assets", "assetScan", "return"} /\ libExists

\* C14: the census of every recorded name is at least the number of its
\* recorded declarations, of classes and of methods together
C14_CensusCoversDeclarationSites ==
    CensusComplete =>
        \A N \in NamesOf(classInfos) \cup NamesOf(methodInfos) :
            GetOr(identifierCountByName, N, 0)
                >= GetOr(declarationCountByName, N, 0)
                       + GetOr(methodDeclarationCountByName, N, 0)

\* the orders in which the files read can be processed
ProcessingOrders == Orders({Join(RootInput, f) : f \in ReadPaths})

RECURSIVE ImportedOfFiles(_)
\* importedPackages after these files, in order
ImportedOfFiles(files) ==
    IF files = << >> THEN {}
    ELSE ImportedOfFiles(SubSeq(files, 1, Len(files) - 1))
             \cup ImportedPackagesOf(ImportCollector(UnitOf(files[Len(files)])))

RECURSIVE LiteralsOfFiles(_)
\* allStringLiterals after these files, in order
LiteralsOfFiles(files) ==
    IF files = << >> THEN {}
    ELSE LiteralsOfFiles(SubSeq(files, 1, Len(files) - 1))
             \cup Range(StringLiteralCollector(UnitOf(files[Len(files)])))

\* C15: the counts of the recorded names are exact sums over the files read,
\* and for every order of processing the files the census, the declaration
\* counts, the imported packages and the literal fragments are the same, and
\* so are the entries of the report lists
C15_MergeIsExactAndOrderIndependent ==
    Returned =>
        /\ \A N \in NamesOf(classInfos) \cup NamesOf(methodInfos) :
              /\ GetOr(identifierCountByName, N, 0) = Census(N)
              /\ GetOr(declarationCountByName, N, 0) = DeclCount(ClassSites, N)
              /\ GetOr(methodDeclarationCountByName, N, 0) = DeclCount(MethodSites, N)
        /\ \A o \in ProcessingOrders :
              LET classes == ClassesOfFiles(o)
                  methods == MethodsOfFiles(o)
                  census == CountAll(EmptyMap, LexemesOfFiles(o))
                  classCount == CountAll(EmptyMap, Names(classes))
                  methodCount == CountAll(EmptyMap, Names(methods))
                  imported == ImportedOfFiles(o)
                  literals == LiteralsOfFiles(o)
              IN  /\ census = identifierCountByName
                  /\ classCount = declarationCountByName
                  /\ methodCount = methodDeclarationCountByName
                  /\ Range(UnusedDeclarations(classes, classCount, census))
                         = Range(result["unused_classes"])
                  /\ Range(UnusedDeclarations(methods, methodCount, census))
                         = Range(result["unused_methods"])
                  /\ ~PackagesEarlyReturn(manifest) =>
                         /\ imported = importedPackages
                         /\ Range(UnusedPackagesOf(packageNames, imported,
                                                   lineNumberByPackage))
                                = Range(result["unused_packages"])
                  /\ ~AssetsEarlyReturn(manifest) =>
                         /\ literals = allStringLiterals
                         /\ Range(UnusedAssetsOf(declaredAssets, literals))
                                = Range(result["unused_assets"])

\* lib/a.dart and lib/c.dart both declare Foo: two tokens, one class, one method
C15_Witness ==
    /\ Returned
    /\ ReadPaths = {"lib/a.dart", "lib/c.dart"}
    /\ Cardinality(ProcessingOrders) = 2
    /\ identifierCountByName["Foo"] = 2
    /\ identifierCountByName["void"] = 3
    /\ declarationCountByName["Foo"] = 1
    /\ methodDeclarationCountByName["Foo"] = 1

\* the second call of analyzeProject on the unchanged project has returned
SecondReturn == pc = "return" /\ Len(previous) = 1

\* C16 (amended): the second report has the same unused_classes,
\* unused_methods and unused_packages lists as the first, the same
\* unused_assets entries, and is identical to it where the directory listings
\* yield their files in the same order
C16_SecondReportSameUpToListingOrder ==
    SecondReturn =>
        /\ \A key \in {"unused_classes", "unused_methods", "unused_packages"} :
              result[key] = previous[1].result[key]
        /\ Range(result["unused_assets"]) = Range(previous[1].result["unused_assets"])
        /\ declaredAssets = previous[1].declaredAssets => result = previous[1].result

\* C16 (as stated): the second report is identical to the first, the order of
\* unused_assets included
C16_SecondReportIdentical == SecondReturn => result = previous[1].result

\* manifest A, lib/a.dart alone: two classes and two assets of assets/ are
\* reported by both calls, in the same order
C16_Witness ==
    /\ SecondReturn
    /\ manifest.readable
    /\ manifest.yaml = ManifestAYaml
    /\ disk = AssetFiles
    /\ ReadPaths = {"lib/a.dart"}
    /\ Len(result["unused_classes"]) = 2
    /\ Len(result["unused_assets"]) = 2
    /\ result = previous[1].result

\* the lines of the manifest text
ManifestLines == Split(manifest.text, "\n")

RECURSIVE Stripped(_)
\* the text without the blanks and tabs at its ends
Stripped(text) ==
    IF text = "" THEN ""
    ELSE IF SubSeq(text, 1, 1) \in {" ", "\t"} THEN Stripped(SubSeq(text, 2, Len(text)))
    ELSE IF SubSeq(text, Len(text), Len(text)) \in {" ", "\t"}
    THEN Stripped(SubSeq(text, 1, Len(text) - 1))
    ELSE text

\* the line has a ':' and the text before the first one is, once stripped, the
\* name
LineHasKey(line, name) ==
    \E c \in 1..Len(line) :
        /\ SubSeq(line, c, c) = ":"
        /\ \A b \in 1..(c - 1) : SubSeq(line, b, b) # ":"
        /\ Stripped(SubSeq(line, 1, c - 1)) = name

\* the number of the first of the lines with this key, 1 where there is none
FirstLineWithKey(lines, name) ==
    LET hits == {i \in 1..Len(lines) : LineHasKey(lines[i], name)}
    IN  IF hits = {} THEN 1 ELSE CHOOSE i \in hits : \A j \in hits : i <= j

\* C17: the line of an unused package is the number of the first line of the
\* manifest text whose key is the package name, and 1 where no line has it
C17_PackageLineIsFirstLineWithItsKey ==
    (Returned /\ ManifestUsable /\ result["unused_packages"] # << >>) =>
        LET lines == ManifestLines
        IN  \A i \in 1..Len(result["unused_packages"]) :
                result["unused_packages"][i].line
                    = FirstLineWithKey(lines, result["unused_packages"][i].name)

\* manifest D: intl has its first line in the override section, http has no
\* line of its own, meta is on line 6
C17_Witness ==
    /\ Returned
    /\ manifest.readable
    /\ manifest.yaml = ManifestDYaml
    /\ result["unused_packages"] = << [name |-> "http", line |-> 1],
                                      [name |-> "intl", line |-> 2],
                                      [name |-> "meta", line |-> 6] >>

\* the names of the list are in strictly ascending order
StrictlyAscendingByName(list) ==
    \A i \in 1..(Len(list) - 1) : CompareTo(list[i].name, list[i + 1].name) < 0

\* C18: unused_packages is sorted by name in ascending order and holds no name
\* twice
C18_UnusedPackagesSortedAndUnique ==
    /\ StrictlyAscendingByName(unusedPackages)
    /\ \A i \in 1..Len(unusedPackages) : \A j \in 1..Len(unusedPackages) :
          unusedPackages[i].name = unusedPackages[j].name => i = j
    /\ pc = "return" =>
          /\ StrictlyAscendingByName(result["unused_packages"])
          /\ Cardinality(NamesOf(result["unused_packages"]))
                 = Len(result["unused_packages"])

\* manifest A declares intl, http, lints in that order and intl in both
\* sections; nothing is imported
C18_Witness ==
    /\ Returned
    /\ manifest.readable
    /\ manifest.yaml = ManifestAYaml
    /\ PackageNames(manifest.yaml) = << "intl", "http", "lints" >>
    /\ result["unused_packages"] = << [name |-> "http", line |-> 5],
                                      [name |-> "intl", line |-> 4],
                                      [name |-> "lints", line |-> 8] >>

\* C19: collectDartFiles called on a directory that does not exist returns an
\* empty list and raises no error
C19_CollectOnMissingDirectoryReturnsEmpty ==
    (entry = "collect" /\ ~libExists /\ pc # "collect") =>
        /\ pc = "collected"
        /\ dartFiles = << >>

\* ------------------------------------------------------------------------
\* DeadCodeProvider as the claims speak of it
\* ------------------------------------------------------------------------

\* what the root-level getChildren() returns in this state
RootChildren == getChildren(providerResult, hasAnalyzed, workspaceOpen, << >>)

\* C20: whatever the state before it, reset() leaves the four result lists
\* empty, _hasAnalyzed false and the state "idle", and the root-level
\* getChildren() then returns an empty list, as it does for the provider just
\* constructed
C20_ResetRestoresTheConstructedProvider ==
    lastCall = "reset" =>
        /\ providerResult = EmptyResult
        /\ \A key \in DOMAIN providerResult : providerResult[key] = << >>
        /\ hasAnalyzed = FALSE
        /\ viewState = "idle"
        /\ RootChildren = << >>
        /\ RootChildren = getChildren(EmptyResult, FALSE, workspaceOpen, << >>)

\* reset() has run on a provider that showed the results of an analysis, with
\* another run under way
C20_Witness ==
    /\ lastCall = "reset"
    /\ before.hasAnalyzed
    /\ before.result.unused_classes # << >>
    /\ before.state = "analyzing"
    /\ inFlight > 0
    /\ Len(children) = 4

\* ------------------------------------------------------------------------
\* The size report as the claims speak of it
\* ------------------------------------------------------------------------

\* the items the top-components list is drawn from: one for each entry of an
\* APK, one for each label of an IPA
RankedItems ==
    IF archive.fileType = "apk" THEN ApkItems(archive.entries)
    ELSE Aggregated(IpaItems(archive.entries))

\* the list is in non-increasing order of size
NonIncreasing(list) == \A i \in 1..(Len(list) - 1) : list[i].sizeBytes >= list[i + 1].sizeBytes

\* the list holds items of all, and no item left out is larger than one in it
LargestOf(list, all) ==
    LET Count(seq, x) == Cardinality({i \in 1..Len(seq) : seq[i] = x})
    IN  \A x \in Range(all) \cup Range(list) :
            /\ Count(list, x) <= Count(all, x)
            /\ Count(list, x) < Count(all, x) =>
                   \A i \in 1..Len(list) : list[i].sizeBytes >= x.sizeBytes

\* C21: for an APK and for an IPA the top-components list has at most five
\* entries, which are the largest by size, in non-increasing order of size
C21_TopComponentsAreTheFiveLargest ==
    report.state = "returned" =>
        /\ Len(report.topItems) <= 5
        /\ Len(report.topItems) = Len(RankedItems) \/ Len(report.topItems) >= 5
        /\ NonIncreasing(report.topItems)
        /\ LargestOf(report.topItems, RankedItems)

\* ------------------------------------------------------------------------
\* DeadCodeProvider under interleaved calls
\* ------------------------------------------------------------------------

\* C22: in every reachable state in which the state is "idle" or "analyzing"
\* the root-level getChildren() returns an empty list
C22_NoItemsWhileIdleOrAnalyzing ==
    viewState \in {"idle", "analyzing"} => RootChildren = << >>

\* the provider shows no results
ShowsNothing ==
    /\ viewState = "idle"
    /\ hasAnalyzed = FALSE
    /\ providerResult = EmptyResult

\* C23: from reset() until the next call of refresh() the provider shows no
\* results, also when the callback of a CLI run started before the reset runs
C23_NothingShownFromResetToRefresh ==
    afterReset => ShowsNothing

\* C24: while a CLI run started by refresh() is in flight the state is
\* "analyzing"
C24_AnalyzingWhileARunIsInFlight ==
    inFlight > 0 => viewState = "analyzing"

\* C25 as claimed, "had succeeded before" being any success of the past: a
\* refresh() that ends with a process error, or that returns early for want of
\* a folder or of the script, leaves the result lists and _hasAnalyzed as they
\* were; after the error the state is "done" if an analysis had succeeded
\* before and "idle" if none had; after the early return the state is as it
\* was and no process was started
C25_FailedRefreshKeepsTheResults ==
    [][/\ lastCall' = "callback: error" =>
              /\ providerResult' = providerResult
              /\ hasAnalyzed' = hasAnalyzed
              /\ viewState' = IF succeeded # "never" THEN "done" ELSE "idle"
       /\ lastCall' \in {"refresh: no folder", "refresh: no script"} =>
              /\ providerResult' = providerResult
              /\ hasAnalyzed' = hasAnalyzed
              /\ viewState' = viewState
              /\ inFlight' = inFlight]_vars

\* C25, a success counting only when no reset() came after it: a refresh()
\* that ends with a process error, or that returns early, leaves the result
\* lists and _hasAnalyzed as they were; after the error the state is "done" if
\* an analysis has succeeded since the last reset() and "idle" if not; after
\* the early return the state is as it was and no process was started
C25_FailedRefreshDoneIfSucceededSinceReset ==
    [][/\ lastCall' = "callback: error" =>
              /\ providerResult' = providerResult
              /\ hasAnalyzed' = hasAnalyzed
              /\ viewState' = IF succeeded = "since reset" THEN "done" ELSE "idle"
       /\ lastCall' \in {"refresh: no folder", "refresh: no script"} =>
              /\ providerResult' = providerResult
              /\ hasAnalyzed' = hasAnalyzed
              /\ viewState' = viewState
              /\ inFlight' = inFlight]_vars

\* the CLI failed on a re-analysis: the state is back to "done" and the view
\* keeps the results of the analysis before
C25_Witness ==
    /\ lastCall = "callback: error"
    /\ before.state = "analyzing"
    /\ before.hasAnalyzed
    /\ before.result.unused_classes # << >>
    /\ succeeded = "since reset"
    /\ providerResult = before.result
    /\ viewState = "done"
    /\ inFlight = 0

\* C26: on each of its three paths the exec callback resolves the promise of
\* its refresh() once, fires the tree-change event and sets the state to
\* "done" or "idle"; no promise stays unresolved once its callback has run
C26_EveryCallbackCompletesItsRefresh ==
    /\ [][lastCall' \in {"callback: error", "callback: unparsable", "callback: success"} =>
              /\ unresolved' = unresolved - 1
              /\ fired' = TRUE
              /\ viewState' \in {"done", "idle"}]_vars
    /\ [](unresolved = inFlight)

\* the output of a re-analysis could not be parsed: the promise is resolved,
\* the event fired, the state "done" and the lists empty
C26_Witness ==
    /\ lastCall = "callback: unparsable"
    /\ before.state = "analyzing"
    /\ before.hasAnalyzed
    /\ unresolved = 0
    /\ fired
    /\ viewState = "done"
    /\ providerResult = EmptyResult

\* C27: in every reachable state "done" implies _hasAnalyzed, "idle" implies
\* not _hasAnalyzed, and not _hasAnalyzed implies four empty result lists
C27_StateFlagAndListsAgree ==
    /\ viewState = "done" => hasAnalyzed
    /\ viewState = "idle" => ~hasAnalyzed
    /\ ~hasAnalyzed => \A key \in DOMAIN providerResult : providerResult[key] = << >>

\* two runs were started, the first succeeded, reset() was called, and the
\* second then failed: "idle", not analyzed, nothing stored
C27_Witness ==
    /\ lastCall = "callback: error"
    /\ afterReset
    /\ before.state = "idle"
    /\ viewState = "idle"
    /\ ~hasAnalyzed
    /\ providerResult = EmptyResult
    /\ Len(children) = 4


\* the index of the brace that closes the block opened at or after token j
RECURSIVE ClosingBrace(_, _, _)
ClosingBrace(tokens, j, depth) ==
    IF j > Len(tokens) THEN Len(tokens)
    ELSE IF tokens[j].lexeme = "{" THEN ClosingBrace(tokens, j + 1, depth + 1)
    ELSE IF tokens[j].lexeme = "}" /\ depth <= 1 THEN j
    ELSE IF tokens[j].lexeme = "}" THEN ClosingBrace(tokens, j + 1, depth - 1)
    ELSE ClosingBrace(tokens, j + 1, depth)

\* the token positions after the name of the class declared at s, up to the
\* brace that closes its body
OwnBody(s) ==
    {<<s[1], j>> : j \in (s[2] + 1)..ClosingBrace(UnitAt(s[1]).tokens, s[2] + 1, 0)}

\* the class declared at s has a token with its own name in its body, as a
\* constructor declaration or a constructor call has
MentionsItsName(s) == \E b \in OwnBody(s) : TokenAt(b).lexeme = TokenAt(s).lexeme

\* C28: a class whose own body mentions its name is never in unused_classes
C28_SelfMentioningClassIsNeverReported ==
    Returned =>
        \A s \in ClassSites :
            MentionsItsName(s) => EntryOf(s) \notin Range(result["unused_classes"])

====
